---- MODULE Spec2Model ----
(***************************************************************************)
(* Model of the compliance checklist evaluator of the GetGSA backend       *)
(* (backend/services/ai_service.py, AIService.generate_checklist).         *)
(*                                                                         *)
(* A Python str is a sequence of one-character strings; None is a value    *)
(* distinct from every str; a Python dict is a record whose DOMAIN is the  *)
(* set of keys it holds.                                                   *)
(***************************************************************************)
EXTENDS Integers, Sequences, FiniteSets, TLC

\* the checklist evaluator
VARIABLES use_mock, parsed_data, relevant_rules, checklist, prev_rules, prev_checklist

\* the rule retriever
VARIABLES self_rules, rule_texts, rule_ids, embeddings, build_outcome,
          query_data, retrieval, noted_query, noted_retrieval, removed

checklistVars == <<use_mock, parsed_data, relevant_rules, checklist, prev_rules, prev_checklist>>

retrieverVars == <<self_rules, rule_texts, rule_ids, embeddings, build_outcome,
                   query_data, retrieval, noted_query, noted_retrieval, removed>>

\* the document processor: the documents of the submission
VARIABLES documents

\* the PII redactor: a text, its redaction and the redaction of that
VARIABLES input_text, redacted_once, redacted_twice

redactorVars == <<input_text, redacted_once, redacted_twice>>

\* the API: the two module-level stores of main.py, the request ids in the
\* order in which their ingest requests completed, and the last response
VARIABLES document_store, analysis_store, ingested, response

apiVars == <<document_store, analysis_store, ingested, response>>

serviceVars == <<redactorVars, apiVars>>

vars == <<checklistVars, retrieverVars, documents, serviceVars>>

(***************************************************************************)
(* Bounds of the model.                                                    *)
(***************************************************************************)
MaxPastPerformance == 2
MaxPricing == 2

(***************************************************************************)
(* Python values.                                                          *)
(***************************************************************************)
\* None: a one-element tuple whose element is no character, so that it
\* differs from every str and stays comparable with them.
None == <<"None">>

\* bool(v) for v a str or None: None and the empty str are falsy.
Truthy(v) == v # None /\ v # <<>>

UpperChars == <<"A","B","C","D","E","F","G","H","I","J","K","L","M",
                "N","O","P","Q","R","S","T","U","V","W","X","Y","Z">>
LowerChars == <<"a","b","c","d","e","f","g","h","i","j","k","l","m",
                "n","o","p","q","r","s","t","u","v","w","x","y","z">>

LowerChar(c) ==
    IF \E i \in 1..26 : UpperChars[i] = c
    THEN LowerChars[CHOOSE i \in 1..26 : UpperChars[i] = c]
    ELSE c

\* str.lower()
Lower(s) == [i \in 1..Len(s) |-> LowerChar(s[i])]

\* sub in s
Contains(s, sub) ==
    \E i \in 1..(Len(s) - Len(sub) + 1) : SubSeq(s, i, i + Len(sub) - 1) = sub

Digits == <<"0","1","2","3","4","5","6","7","8","9">>

IsDigit(c) == \E i \in 1..10 : Digits[i] = c

DigitVal(c) == (CHOOSE i \in 1..10 : Digits[i] = c) - 1

\* the character class [\d,]
InValueClass(c) == IsDigit(c) \/ c = ","

\* str.replace(',', '')
RECURSIVE RemoveCommas(_)
RemoveCommas(s) ==
    IF s = <<>> THEN <<>>
    ELSE IF Head(s) = "," THEN RemoveCommas(Tail(s))
    ELSE <<Head(s)>> \o RemoveCommas(Tail(s))

\* int(s) for a non-empty str of digits
RECURSIVE IntOfDigits(_)
IntOfDigits(s) ==
    IF s = <<>> THEN 0
    ELSE 10 * IntOfDigits(SubSeq(s, 1, Len(s) - 1)) + DigitVal(s[Len(s)])

(***************************************************************************)
(* re.search(r'\$?([\d,]+)', value): the leftmost position at which the    *)
(* pattern matches, and group(1) of that match.                            *)
(***************************************************************************)
\* where group(1) starts if the pattern matches at position i, 0 if it does
\* not: an optional '$' is consumed when a [\d,] follows it.
GroupStartAt(s, i) ==
    IF s[i] = "$" /\ i < Len(s) /\ InValueClass(s[i + 1]) THEN i + 1
    ELSE IF InValueClass(s[i]) THEN i
    ELSE 0

\* the greedy [\d,]+ : the last position of the run that starts at g
RunEnd(s, g) ==
    CHOOSE e \in g..Len(s) :
        /\ \A k \in g..e : InValueClass(s[k])
        /\ (e = Len(s) \/ ~InValueClass(s[e + 1]))

NoMatch == <<"NoMatch">>

ValueSearch(s) ==
    IF \E i \in 1..Len(s) : GroupStartAt(s, i) # 0
    THEN LET i == CHOOSE j \in 1..Len(s) :
                      /\ GroupStartAt(s, j) # 0
                      /\ \A k \in 1..(j - 1) : GroupStartAt(s, k) = 0
             g == GroupStartAt(s, i)
         IN  SubSeq(s, g, RunEnd(s, g))
    ELSE NoMatch

(***************************************************************************)
(* The numeric amount of one past-performance entry, lines 135-142:        *)
(* [raised |-> FALSE, value |-> n], or [raised |-> TRUE] when int() is     *)
(* given the empty str and raises ValueError.                              *)
(***************************************************************************)
EntryAmount(pp) ==
    IF "value" \notin DOMAIN pp THEN [raised |-> FALSE, value |-> 0]
    ELSE LET value_match == ValueSearch(pp.value) IN
         IF value_match # NoMatch
         THEN LET digits == RemoveCommas(value_match) IN
              IF digits = <<>> THEN [raised |-> TRUE]
              ELSE [raised |-> FALSE, value |-> IntOfDigits(digits)]
         ELSE [raised |-> FALSE, value |-> 0]

MinValue == 25000

\* the loop with the threshold open at its lower bound (> for >=)
RECURSIVE MinValueLoopOpen(_, _)
MinValueLoopOpen(past_performance, i) ==
    IF i > Len(past_performance) THEN "not_met"
    ELSE LET a == EntryAmount(past_performance[i]) IN
         IF a.raised THEN "raised"
         ELSE IF a.value > MinValue THEN "met"
         ELSE MinValueLoopOpen(past_performance, i + 1)

\* the loop of lines 133-146 from entry i on: "met", "not_met" or "raised"
RECURSIVE MinValueLoop(_, _)
MinValueLoop(past_performance, i) ==
    IF i > Len(past_performance) THEN "not_met"
    ELSE LET a == EntryAmount(past_performance[i]) IN
         IF a.raised THEN "raised"
         ELSE IF a.value >= MinValue THEN "met"
         ELSE MinValueLoop(past_performance, i + 1)

(***************************************************************************)
(* Findings.  evidence is the text of the f-string and the value it        *)
(* interpolates (None for a fixed text); problem is None or the one-element *)
(* tuple of a tag, which keeps the two comparable.  acc is the pair of the *)
(* lists items and problems built so far.                                  *)
(***************************************************************************)
Item(ok, problem, text, value, ids) ==
    [required |-> TRUE, ok |-> ok, problem |-> problem,
     evidence |-> [text |-> text, value |-> value], rule_ids |-> ids]

\* dict.get(key): the value, None when the key is absent
Get(d, key) == IF key \in DOMAIN d THEN d[key] ELSE None

\* the failing branch of a predicate: problems.append(tag); items.append({...})
Fail(acc, tag, text, ids) ==
    [items |-> Append(acc.items, Item(FALSE, <<tag>>, text, None, ids)),
     problems |-> Append(acc.problems, tag)]

\* the passing branch of a predicate: items.append({...})
Pass(acc, text, value, ids) ==
    [items |-> Append(acc.items, Item(TRUE, None, text, value, ids)),
     problems |-> acc.problems]

\* the UEI predicate reading the 'duns' key (a copy-paste slip)
CheckUEIWrongKey(data, acc) ==
    IF ~Truthy(Get(data, "duns"))
    THEN Fail(acc, "missing_uei", "UEI not found in documents", <<"R1">>)
    ELSE Pass(acc, "UEI found: ", data.uei, <<"R1">>)

\* lines 66-82
CheckUEI(data, acc) ==
    IF ~Truthy(Get(data, "uei"))
    THEN Fail(acc, "missing_uei", "UEI not found in documents", <<"R1">>)
    ELSE Pass(acc, "UEI found: ", data.uei, <<"R1">>)

\* the DUNS predicate without its problems.append
CheckDUNSNoProblem(data, acc) ==
    IF ~Truthy(Get(data, "duns"))
    THEN [items |-> Append(acc.items, Item(FALSE, <<"missing_duns">>,
                                           "DUNS not found in documents", None, <<"R1">>)),
          problems |-> acc.problems]
    ELSE Pass(acc, "DUNS found: ", data.duns, <<"R1">>)

\* lines 84-100
CheckDUNS(data, acc) ==
    IF ~Truthy(Get(data, "duns"))
    THEN Fail(acc, "missing_duns", "DUNS not found in documents", <<"R1">>)
    ELSE Pass(acc, "DUNS found: ", data.duns, <<"R1">>)

active == <<"a","c","t","i","v","e">>

\* the SAM predicate without .lower()
CheckSAMCaseSensitive(data, acc) ==
    IF ~Truthy(Get(data, "sam_status")) \/ ~Contains(data.sam_status, active)
    THEN Fail(acc, "sam_not_active", "SAM.gov registration not active", <<"R1">>)
    ELSE Pass(acc, "SAM.gov status: ", data.sam_status, <<"R1">>)

\* the SAM predicate citing no rule in its passing branch
CheckSAMNoRule(data, acc) ==
    IF ~Truthy(Get(data, "sam_status")) \/ ~Contains(Lower(data.sam_status), active)
    THEN Fail(acc, "sam_not_active", "SAM.gov registration not active", <<"R1">>)
    ELSE Pass(acc, "SAM.gov status: ", data.sam_status, <<>>)

\* lines 102-118
CheckSAM(data, acc) ==
    IF ~Truthy(Get(data, "sam_status")) \/ ~Contains(Lower(data.sam_status), active)
    THEN Fail(acc, "sam_not_active", "SAM.gov registration not active", <<"R1">>)
    ELSE Pass(acc, "SAM.gov status: ", data.sam_status, <<"R1">>)

\* the past-performance predicate appending a finding only when it fails
CheckPastPerformanceSkipOk(data, acc) ==
    LET past_performance == Get(data, "past_performance") IN
    IF past_performance = <<>>
    THEN Fail(acc, "missing_past_performance", "No past performance records found",
              <<"R3">>)
    ELSE IF MinValueLoop(past_performance, 1) # "met"
    THEN Fail(acc, "past_performance_min_value_not_met",
              "No past performance >= $25,000 found", <<"R3">>)
    ELSE acc

\* lines 120-164, for a list on which the loop does not raise
CheckPastPerformance(data, acc) ==
    LET past_performance == Get(data, "past_performance") IN
    IF past_performance = <<>>
    THEN Fail(acc, "missing_past_performance", "No past performance records found",
              <<"R3">>)
    ELSE IF MinValueLoop(past_performance, 1) # "met"
    THEN Fail(acc, "past_performance_min_value_not_met",
              "No past performance >= $25,000 found", <<"R3">>)
    ELSE Pass(acc, "Past performance >= $25,000 found", None, <<"R3">>)

\* the loop looking at the first entry only
PricingLoopFirstOnly(pricing_data, i) ==
    Truthy(Get(pricing_data[i], "rate")) /\ Truthy(Get(pricing_data[i], "unit"))

\* the loop of lines 179-183 from entry i on: complete_pricing
RECURSIVE PricingLoop(_, _)
PricingLoop(pricing_data, i) ==
    IF i > Len(pricing_data) THEN TRUE
    ELSE IF ~Truthy(Get(pricing_data[i], "rate")) \/ ~Truthy(Get(pricing_data[i], "unit"))
    THEN FALSE
    ELSE PricingLoop(pricing_data, i + 1)

\* lines 166-201
CheckPricing(data, acc) ==
    LET pricing_data == Get(data, "pricing_data") IN
    IF pricing_data = <<>>
    THEN Fail(acc, "pricing_incomplete", "No pricing data found", <<"R4">>)
    ELSE IF ~PricingLoop(pricing_data, 1)
    THEN Fail(acc, "pricing_incomplete",
              "Pricing data missing rate or unit information", <<"R4">>)
    ELSE Pass(acc, "Pricing data complete", None, <<"R4">>)

\* line 204
OverallStatus(problems) == IF problems = <<>> THEN "pass" ELSE "fail"

\* the call ended in an exception instead of a return value
ValueError == [exception |-> "ValueError"]

\* the checklist as the code builds it, lines 62-209
BuildChecklist(data) ==
    LET a0 == [items |-> <<>>, problems |-> <<>>]
        a3 == CheckSAM(data, CheckDUNS(data, CheckUEI(data, a0)))
    IN  IF MinValueLoop(Get(data, "past_performance"), 1) = "raised" THEN ValueError
        ELSE LET a5 == CheckPricing(data, CheckPastPerformance(data, a3))
             IN  [items |-> a5.items, overall_status |-> OverallStatus(a5.problems)]

\* a checklist that keeps only the findings whose rule was retrieved
mock_generate_checklist_cited(data, rules) ==
    LET c == BuildChecklist(data) IN
    IF c = ValueError THEN c
    ELSE [c EXCEPT !.items =
              SelectSeq(c.items,
                        LAMBDA it : \E k \in 1..Len(rules) : rules[k].rule_id = it.rule_ids[1])]

\* lines 60-209: relevant_rules is not read
mock_generate_checklist(data, rules) == BuildChecklist(data)

\* lines 211-214
llm_generate_checklist(data, rules) == [items |-> <<>>, overall_status |-> "unknown"]

\* lines 53-58
generate_checklist(mock, data, rules) ==
    IF mock THEN mock_generate_checklist(data, rules)
    ELSE llm_generate_checklist(data, rules)

(***************************************************************************)
(* Inputs.                                                                 *)
(***************************************************************************)
UEIValues == {None, <<"A","B","C","1","2","3","D","E","F","4","5","6">>}
DUNSValues == {None, <<"1","2","3","4","5","6","7","8","9">>}

registered == <<"r","e","g","i","s","t","e","r","e","d">>

\* the trimmed match of the SAM.gov pattern, which can be the empty str
SAMValues == {None, <<>>, registered, <<"A","c","t","i","v","e">>,
              <<"I","n","a","c","t","i","v","e">>}

V30000 == <<"$","3","0",",","0","0","0">>
V25000 == <<"2","5","0","0","0">>
V24999 == <<"2","4","9","9","9">>
VText == <<"T","B","D">>
VCommaOnly == <<"$",",">>

\* the value strings of past-performance entries
ValueStrings == {V30000, V25000, V24999, VText, VCommaOnly}

Customer == <<"C","i","t","y">>

\* pp_data of lines 117-145: 'value' is present only when its label matched
PastPerformanceEntries ==
    {[customer |-> Customer]} \cup
    {[customer |-> Customer, value |-> v] : v \in ValueStrings}

Developer == <<"D","e","v">>
Rate150 == <<"1","5","0">>
Hour == <<"H","o","u","r">>

CompletePricing == [labor_category |-> Developer, rate |-> Rate150, unit |-> Hour]

\* pricing_item of lines 156-160: the three keys are always present, and a
\* field of the row can be empty
PricingEntries ==
    {CompletePricing,
     [labor_category |-> Developer, rate |-> <<>>, unit |-> Hour],
     [labor_category |-> Developer, rate |-> Rate150, unit |-> <<>>]}

SeqsUpTo(S, n) == UNION {[1..k -> S] : k \in 0..n}

\* the fact sets: every combination of the scalar fields with the lists of
\* one kind up to its bound and at most one entry of the other kind
FactSets ==
    [uei : UEIValues, duns : DUNSValues, sam_status : SAMValues,
     past_performance : SeqsUpTo(PastPerformanceEntries, MaxPastPerformance),
     pricing_data : SeqsUpTo(PricingEntries, 1)]
    \cup
    [uei : UEIValues, duns : DUNSValues, sam_status : SAMValues,
     past_performance : SeqsUpTo(PastPerformanceEntries, 1),
     pricing_data : SeqsUpTo(PricingEntries, MaxPricing)]

Citation(id, chunk, score) == [rule_id |-> id, chunk |-> chunk, relevance_score |-> score]

\* relevance scores are in hundredths
CitationLists ==
    {<<>>,
     <<Citation("R1", "Identity & Registry requirements", 80),
       Citation("R3", "Past Performance requirements", 70),
       Citation("R4", "Pricing requirements", 60)>>}

NoResult == [none |-> TRUE]

(***************************************************************************)
(* The rule retriever (backend/services/rag_service.py, RAGService).       *)
(*                                                                         *)
(* The rule texts are written character by character; the arrow (U+2192)   *)
(* of R2 is written "^" and the greater-or-equal sign (U+2265) of R3 "~":  *)
(* neither is a word character, so the tokens are those of the source.     *)
(***************************************************************************)
\* the keys of self.rules in insertion order, lines 15-46
RuleIds == <<"R1", "R2", "R3", "R4", "R5">>

\* rule_data['title'], lines 16-45
RuleTitle(id) ==
    CASE id = "R1" ->
           <<"I","d","e","n","t","i","t","y"," ","&"," ","R","e","g","i","s","t",
             "r","y">>
      [] id = "R2" ->
           <<"N","A","I","C","S"," ","&"," ","S","I","N"," ","M","a","p","p","i",
             "n","g">>
      [] id = "R3" ->
           <<"P","a","s","t"," ","P","e","r","f","o","r","m","a","n","c","e">>
      [] id = "R4" ->
           <<"P","r","i","c","i","n","g"," ","&"," ","C","a","t","a","l","o","g">>
      [] id = "R5" ->
           <<"S","u","b","m","i","s","s","i","o","n"," ","H","y","g","i","e","n",
             "e">>

\* rule_data['content'], lines 16-45
RuleContent(id) ==
    CASE id = "R1" ->
           <<"R","e","q","u","i","r","e","d",":"," ","U","E","I"," ","(","1","2",
             " ","c","h","a","r","s",")",","," ","D","U","N","S"," ","(","9"," ",
             "d","i","g","i","t","s",")",","," ","a","n","d"," ","a","c","t","i",
             "v","e"," ","S","A","M",".","g","o","v"," ","r","e","g","i","s","t",
             "r","a","t","i","o","n","."," ","P","r","i","m","a","r","y"," ","c",
             "o","n","t","a","c","t"," ","m","u","s","t"," ","h","a","v","e"," ",
             "v","a","l","i","d"," ","e","m","a","i","l"," ","a","n","d"," ","p",
             "h","o","n","e",".">>
      [] id = "R2" ->
           <<"5","4","1","5","1","1"," ","^"," ","5","4","1","5","1","S",","," ",
             "5","4","1","5","1","2"," ","^"," ","5","4","1","5","1","S",","," ",
             "5","4","1","6","1","1"," ","^"," ","5","4","1","6","1","1",","," ",
             "5","1","8","2","1","0"," ","^"," ","5","1","8","2","1","0","C">>
      [] id = "R3" ->
           <<"A","t"," ","l","e","a","s","t"," ","1"," ","p","a","s","t"," ","p",
             "e","r","f","o","r","m","a","n","c","e"," ","~"," ","$","2","5",",",
             "0","0","0"," ","w","i","t","h","i","n"," ","l","a","s","t"," ","3",
             "6"," ","m","o","n","t","h","s","."," ","M","u","s","t"," ","i","n",
             "c","l","u","d","e"," ","c","u","s","t","o","m","e","r"," ","n","a",
             "m","e",","," ","v","a","l","u","e",","," ","p","e","r","i","o","d",
             ","," ","a","n","d"," ","c","o","n","t","a","c","t"," ","e","m","a",
             "i","l",".">>
      [] id = "R4" ->
           <<"P","r","o","v","i","d","e"," ","l","a","b","o","r"," ","c","a","t",
             "e","g","o","r","i","e","s"," ","a","n","d"," ","r","a","t","e","s",
             " ","i","n"," ","a"," ","s","t","r","u","c","t","u","r","e","d"," ",
             "s","h","e","e","t","."," ","I","f"," ","m","i","s","s","i","n","g",
             " ","r","a","t","e"," ","b","a","s","i","s"," ","o","r"," ","u","n",
             "i","t","s",","," ","f","l","a","g"," ","'","p","r","i","c","i","n",
             "g","_","i","n","c","o","m","p","l","e","t","e","'",".">>
      [] id = "R5" ->
           <<"A","l","l"," ","p","e","r","s","o","n","a","l","l","y"," ","i","d",
             "e","n","t","i","f","i","a","b","l","e"," ","i","n","f","o"," ","m",
             "u","s","t"," ","b","e"," ","s","t","o","r","e","d"," ","i","n"," ",
             "r","e","d","a","c","t","e","d"," ","f","o","r","m",";"," ","o","n",
             "l","y"," ","d","e","r","i","v","e","d"," ","f","i","e","l","d","s",
             " ","a","n","d"," ","h","a","s","h","e","s"," ","a","r","e"," ","s",
             "t","o","r","e","d"," ","b","y"," ","d","e","f","a","u","l","t",".">>

\* line 58: f"{rule_data['title']}: {rule_data['content']}"
SearchableText(id) == RuleTitle(id) \o <<":", " ">> \o RuleContent(id)

(***************************************************************************)
(* TfidfVectorizer(max_features=100, stop_words='english',                 *)
(* ngram_range=(1, 2)), lines 117-121: a text is lower-cased, cut into the *)
(* tokens of (?u)\b\w\w+\b, stripped of the English stop words, and turned *)
(* into its words followed by its pairs of adjacent words.                 *)
(***************************************************************************)
max_features == 100

\* \w in a lower-cased text
IsWordChar(c) == c = "_" \/ IsDigit(c) \/ \E i \in 1..26 : LowerChars[i] = c

\* the positions at which a maximal run of word characters of s starts
RunStarts(s) ==
    {i \in 1..Len(s) : IsWordChar(s[i]) /\ (i = 1 \/ ~IsWordChar(s[i - 1]))}

\* the last position of the run of word characters that starts at i
WordEnd(s, i) ==
    CHOOSE e \in i..Len(s) :
        /\ \A k \in i..e : IsWordChar(s[k])
        /\ (e = Len(s) \/ ~IsWordChar(s[e + 1]))

\* the k-th position of a set of positions
Nth(positions, k) ==
    CHOOSE i \in positions : Cardinality({j \in positions : j < i}) = k - 1

\* the run of word characters that starts at i
WordAt(s, i) == SubSeq(s, i, WordEnd(s, i))

\* the runs that start at the positions of starts, in order
WordsFrom(s, starts) == [k \in 1..Cardinality(starts) |-> WordAt(s, Nth(starts, k))]

\* the matches of \b\w\w+\b in s, in order: the maximal runs of word
\* characters that are at least two characters long
Tokenize(s) == WordsFrom(s, {i \in RunStarts(s) : WordEnd(s, i) > i})

\* the words of the English stop list that occur in the rule texts
StopWords ==
    {<<"a","l","l">>,
     <<"a","n","d">>,
     <<"a","r","e">>,
     <<"a","t">>,
     <<"b","e">>,
     <<"b","y">>,
     <<"h","a","v","e">>,
     <<"i","f">>,
     <<"i","n">>,
     <<"l","a","s","t">>,
     <<"l","e","a","s","t">>,
     <<"m","u","s","t">>,
     <<"n","a","m","e">>,
     <<"o","n","l","y">>,
     <<"o","r">>,
     <<"w","i","t","h","i","n">>}

\* ngram_range=(1, 2): the words, then the pairs of neighbouring words
Ngrams(words) ==
    IF Len(words) < 2 THEN words
    ELSE words \o [i \in 1..(Len(words) - 1) |-> words[i] \o <<" ">> \o words[i + 1]]

\* the terms of one text, in order: unigrams, then bigrams
Analyze(text) ==
    Ngrams(SelectSeq(Tokenize(Lower(text)), LAMBDA w : w \notin StopWords))

Range(s) == {s[i] : i \in 1..Len(s)}

\* how often term t occurs in a list of terms
TermCount(terms, t) == Cardinality({i \in 1..Len(terms) : terms[i] = t})

\* the characters of a term in code-point order
Alphabet == <<" ", "0","1","2","3","4","5","6","7","8","9", "_",
              "a","b","c","d","e","f","g","h","i","j","k","l","m",
              "n","o","p","q","r","s","t","u","v","w","x","y","z">>

CharRank(c) == CHOOSE i \in 1..Len(Alphabet) : Alphabet[i] = c

\* a < b for two terms
Less(a, b) ==
    \E k \in 1..Len(b) :
        /\ Len(a) >= k - 1
        /\ \A j \in 1..(k - 1) : a[j] = b[j]
        /\ (Len(a) = k - 1 \/ CharRank(a[k]) < CharRank(b[k]))

RECURSIVE Flatten(_)
Flatten(lists) == IF lists = <<>> THEN <<>> ELSE Head(lists) \o Flatten(Tail(lists))

\* the occurrences in all that are the first of their term
FirstOccurrences(all) ==
    SelectSeq([k \in 1..Len(all) |-> [at |-> k, term |-> all[k]]],
              LAMBDA p : \A j \in 1..(p.at - 1) : all[j] # p.term)

\* the terms of first with their number of occurrences in all
WithCounts(all, first) ==
    [k \in 1..Len(first) |->
        [term |-> first[k].term, count |-> TermCount(all, first[k].term)]]

\* the distinct terms of all, each with its count
CountedTerms(all) == WithCounts(all, FirstOccurrences(all))

\* the first max_features entries of a list
Limit(byCount) ==
    IF Len(byCount) <= max_features THEN byCount ELSE SubSeq(byCount, 1, max_features)

\* the max_features most frequent terms, the smaller term first among
\* equally frequent ones
MostFrequent(counted) ==
    Limit(SortSeq(counted, LAMBDA a, b : \/ a.count > b.count
                                         \/ a.count = b.count /\ Less(a.term, b.term)))

TermsOf(sorted) == [j \in 1..Len(sorted) |-> sorted[j].term]

\* the kept terms in sorted order
SortedTerms(kept) == TermsOf(SortSeq(kept, LAMBDA a, b : Less(a.term, b.term)))

\* the vocabulary the vectorizer fits on docs (the term lists of the texts):
\* the terms in sorted order, the column of a term being its position; when
\* there are more than max_features terms the most frequent ones are kept,
\* the sorted order deciding between equally frequent terms
Vocabulary(docs) == SortedTerms(MostFrequent(CountedTerms(Flatten(docs))))

\* the smoothed idf ln((1 + n) / (1 + df)) + 1 in tenths, for n <= 5 texts
IdfTenths(n, df) ==
    CASE df = n -> 10
      [] n = 2 /\ df = 1 -> 14
      [] n = 3 /\ df = 1 -> 17
      [] n = 3 /\ df = 2 -> 13
      [] n = 4 /\ df = 1 -> 19
      [] n = 4 /\ df = 2 -> 15
      [] n = 4 /\ df = 3 -> 12
      [] n = 5 /\ df = 1 -> 21
      [] n = 5 /\ df = 2 -> 17
      [] n = 5 /\ df = 3 -> 14
      [] n = 5 /\ df = 4 -> 12

\* in how many of the docs each term of the vocabulary occurs
DocumentFrequencies(docs, vocabulary) ==
    [j \in 1..Len(vocabulary) |->
        Cardinality({i \in 1..Len(docs) : vocabulary[j] \in Range(docs[i])})]

\* the weights of the docs over a fitted vocabulary
Weights(docs, vocabulary, df) ==
    [i \in 1..Len(docs) |->
        [j \in 1..Len(vocabulary) |->
            TermCount(docs[i], vocabulary[j]) * IdfTenths(Len(docs), df[j])]]

\* transform: ValueError on an empty vocabulary
Transform(docs, vocabulary) ==
    IF Len(vocabulary) = 0 THEN ValueError
    ELSE [array |-> Weights(docs, vocabulary, DocumentFrequencies(docs, vocabulary))]

\* line 124: vectorizer.fit_transform on the term lists of the texts
FitTransform(docs) == Transform(docs, Vocabulary(docs))

\* lines 112-127: a new vectorizer is fitted on texts and only the array of
\* its weights is returned, one row per text and one column per term of the
\* vocabulary fitted on these texts; fit_transform raises ValueError on an
\* empty vocabulary.  A weight is tf * idf in tenths; the l2 normalisation
\* of a row is left out, cosine_similarity normalises again.
create_simple_embeddings(texts) ==
    FitTransform([i \in 1..Len(texts) |-> Analyze(texts[i])])

\* the corpora that deleting rules leaves: the keys still in self.rules
Corpora == {SelectSeq(RuleIds, LAMBDA r : r \in S) : S \in SUBSET Range(RuleIds)}

\* lines 56-60
RuleTexts(rule_keys) == [i \in 1..Len(rule_keys) |-> SearchableText(rule_keys[i])]

\* line 63 for every corpus, evaluated once
RuleEmbeddings == [rule_keys \in Corpora |-> create_simple_embeddings(RuleTexts(rule_keys))]

\* the attributes after _build_index, e being what line 63 computes
Assigned(rule_keys, e, old_embeddings) ==
    [rule_texts |-> RuleTexts(rule_keys), rule_ids |-> rule_keys,
     embeddings |-> IF e = ValueError THEN old_embeddings ELSE e,
     outcome |-> IF e = ValueError THEN ValueError ELSE NoResult]

\* lines 51-63: rule_texts and rule_ids are assigned first, so that they
\* are replaced also when _create_simple_embeddings raises and embeddings
\* keeps its old value
build_index(rule_keys, old_embeddings) ==
    Assigned(rule_keys, RuleEmbeddings[rule_keys], old_embeddings)

\* bool(parsed_data.get(key)) for a key that holds a list
TruthyList(data, key) == key \in DOMAIN data /\ data[key] # <<>>

\* lines 68-77
QueryParts(data) ==
    (IF Truthy(Get(data, "uei"))
     THEN <<<<"U","E","I"," ","D","U","N","S"," ","S","A","M",".","g","o","v"," ",
            "r","e","g","i","s","t","r","a","t","i","o","n">>>>
     ELSE <<>>)
    \o (IF TruthyList(data, "naics_codes")
        THEN <<<<"N","A","I","C","S"," ","S","I","N"," ","m","a","p","p","i","n","g">>>>
        ELSE <<>>)
    \o (IF TruthyList(data, "past_performance")
        THEN <<<<"p","a","s","t"," ","p","e","r","f","o","r","m","a","n","c","e"," ",
               "r","e","q","u","i","r","e","m","e","n","t","s">>>>
        ELSE <<>>)
    \o (IF TruthyList(data, "pricing_data")
        THEN <<<<"p","r","i","c","i","n","g"," ","l","a","b","o","r"," ","c","a","t",
               "e","g","o","r","i","e","s"," ","r","a","t","e","s">>>>
        ELSE <<>>)

\* " ".join(parts)
RECURSIVE Join(_)
Join(parts) ==
    IF parts = <<>> THEN <<>>
    ELSE IF Len(parts) = 1 THEN parts[1]
    ELSE parts[1] \o <<" ">> \o Join(Tail(parts))

\* line 79
QueryText(data) == Join(QueryParts(data))

RECURSIVE Gcd(_, _)
Gcd(a, b) == IF b = 0 THEN a ELSE Gcd(b, a % b)

RECURSIVE GcdOf(_, _)
GcdOf(v, i) == IF i > Len(v) THEN 0 ELSE Gcd(v[i], GcdOf(v, i + 1))

\* v divided by the greatest common divisor of its entries: the cosine does
\* not change and the integers stay small
DividedBy(v, d) == IF d = 0 THEN v ELSE [j \in 1..Len(v) |-> v[j] \div d]

Reduced(v) == DividedBy(v, GcdOf(v, 1))

RECURSIVE Dot(_, _, _)
Dot(x, y, j) == IF j > Len(x) THEN 0 ELSE x[j] * y[j] + Dot(x, y, j + 1)

\* the cosine of two rows as the exact pair num / sqrt(den2); 0 for a zero row
Ratio(num, den2) == IF den2 = 0 THEN [num |-> 0, den2 |-> 1] ELSE [num |-> num, den2 |-> den2]

CosineOfReduced(u, v) == Ratio(Dot(u, v, 1), Dot(u, u, 1) * Dot(v, v, 1))

Cosine(x, y) == CosineOfReduced(Reduced(x), Reduced(y))

\* line 85: sklearn's cosine_similarity(X, Y)[0] for a one-row X; it raises
\* ValueError when X and Y differ in their number of columns
cosine_similarity(X, Y) ==
    IF Len(X[1]) # Len(Y[1]) THEN ValueError
    ELSE [similarities |-> [i \in 1..Len(Y) |-> Cosine(X[1], Y[i])]]

\* line 90: similarity > 0.3
AboveThreshold(s) == s.num > 0 /\ 100 * s.num * s.num > 9 * s.den2

\* a > b for two similarities
Greater(a, b) == a.num * a.num * b.den2 > b.num * b.num * a.den2

IndexError == [exception |-> "IndexError"]

\* lines 89-95 from rule i on
RECURSIVE CollectCitations(_, _, _, _)
CollectCitations(similarities, ids, texts, i) ==
    IF i > Len(similarities) THEN <<>>
    ELSE (IF AboveThreshold(similarities[i])
          THEN <<Citation(ids[i], texts[i], similarities[i])>>
          ELSE <<>>)
         \o CollectCitations(similarities, ids, texts, i + 1)

\* c put behind the citations of list that score at least as much
RECURSIVE InsertByScore(_, _)
InsertByScore(list, c) ==
    IF list = <<>> THEN <<c>>
    ELSE IF Greater(c.relevance_score, list[1].relevance_score) THEN <<c>> \o list
    ELSE <<list[1]>> \o InsertByScore(Tail(list), c)

\* line 98: list.sort(key=relevance_score, reverse=True), a stable sort
RECURSIVE SortByScore(_)
SortByScore(list) ==
    IF list = <<>> THEN <<>>
    ELSE InsertByScore(SortByScore(SubSeq(list, 1, Len(list) - 1)), list[Len(list)])

NAICSCode == <<"5","4","1","5","1","1">>

\* a starting fact set in which a SAM.gov status is already recorded
UnsetFactsButStatus ==
    [uei |-> None, duns |-> None, naics_codes |-> <<>>,
     sam_status |-> <<"A","c","t","i","v","e">>,
     primary_contact |-> None, past_performance |-> <<>>, pricing_data |-> <<>>,
     document_types |-> <<>>]

\* lines 28-37: the fact set process_documents starts from
UnsetFacts ==
    [uei |-> None, duns |-> None, naics_codes |-> <<>>, sam_status |-> None,
     primary_contact |-> None, past_performance |-> <<>>, pricing_data |-> <<>>,
     document_types |-> <<>>]

\* the four categories of facts that gate a phrase of the query
Gates == {"uei", "naics_codes", "past_performance", "pricing_data"}

\* the fact set in which the categories of g are set
FactsWith(g) ==
    [UnsetFacts EXCEPT
       !.uei = IF "uei" \in g THEN <<"A","B","C","1","2","3","D","E","F","4","5","6">>
               ELSE None,
       !.naics_codes = IF "naics_codes" \in g THEN <<NAICSCode>> ELSE <<>>,
       !.past_performance = IF "past_performance" \in g
                            THEN <<[customer |-> Customer, value |-> V30000]>> ELSE <<>>,
       !.pricing_data = IF "pricing_data" \in g THEN <<CompletePricing>> ELSE <<>>]

OnlyDUNS == [duns |-> <<"1","2","3","4","5","6","7","8","9">>]

\* the fact sets given to the retriever
RetrievalFactSets == {FactsWith(g) : g \in SUBSET Gates} \cup {OnlyDUNS}

\* line 82, _create_simple_embeddings([query_text]), for every query text,
\* evaluated once
QueryEmbeddings ==
    [query_text \in {QueryText(data) : data \in RetrievalFactSets} |->
        create_simple_embeddings(<<query_text>>)]

\* lines 87-100 on what line 85 has computed
Cite(s, ids, texts) ==
    IF s = ValueError THEN ValueError
    ELSE IF \E i \in 1..Len(s.similarities) :
                AboveThreshold(s.similarities[i]) /\ i > Len(ids)
    THEN IndexError
    ELSE [relevant_rules |-> SortByScore(CollectCitations(s.similarities, ids, texts, 1))]

\* lines 85-100 on what line 82 has computed
Compare(query_embedding, ids, texts, index) ==
    IF query_embedding = ValueError THEN ValueError
    ELSE Cite(cosine_similarity(query_embedding.array, index.array), ids, texts)

\* lines 65-100: ValueError from fitting the query or from cosine_similarity,
\* IndexError when a row of embeddings has no entry in rule_ids, else the
\* list of citations
get_relevant_rules(data, ids, texts, index) ==
    Compare(QueryEmbeddings[QueryText(data)], ids, texts, index)

(***************************************************************************)
(* The document processor (backend/services/document_processor.py,         *)
(* DocumentProcessor).  A document is the record of the two fields that    *)
(* process_documents reads, text and type_hint.  The dict primary_contact  *)
(* is the pair <<email, phone>>, which stays comparable with None.         *)
(***************************************************************************)
IsLetter(c) == \E i \in 1..26 : UpperChars[i] = c \/ LowerChars[i] = c

IsAlnum(c) == IsLetter(c) \/ IsDigit(c)

\* \s
IsSpace(c) == c \in {" ", "\n", "\t", "\r"}

\* \w
IsWord(c) == IsAlnum(c) \/ c = "_"

\* the character classes of the patterns of lines 13-23, by name
InClass(class, c) ==
    CASE class = "[A-Z0-9]" -> IsAlnum(c)
      [] class = "\\d" -> IsDigit(c)
      [] class = "[0-9,\\s]" -> IsDigit(c) \/ c = "," \/ IsSpace(c)
      [] class = "[a-zA-Z\\s]" -> IsLetter(c) \/ IsSpace(c)
      [] class = "[^\\n]" -> c # "\n"
      [] class = "\\s" -> IsSpace(c)
      [] class = "[A-Za-z0-9._%+-]" -> IsAlnum(c) \/ c \in {".", "_", "%", "+", "-"}
      [] class = "[A-Za-z0-9.-]" -> IsAlnum(c) \/ c \in {".", "-"}
      [] class = "[A-Z|a-z]" -> IsLetter(c) \/ c = "|"
      [] class = "\\(" -> c = "("
      [] class = "\\)" -> c = ")"
      [] class = "[-.\\s]" -> c \in {"-", "."} \/ IsSpace(c)

\* under re.IGNORECASE the literal lit, given in lower case, stands at
\* position i of s
LiteralAt(s, i, lit) ==
    /\ i >= 1
    /\ i + Len(lit) - 1 <= Len(s)
    /\ \A k \in 1..Len(lit) : LowerChar(s[i + k - 1]) = lit[k]

\* the last position of the longest run of characters of a class that
\* starts at g, g - 1 when there is none
ClassRunEnd(s, g, class) ==
    CHOOSE e \in (g - 1)..Len(s) :
        /\ \A k \in g..e : InClass(class, s[k])
        /\ (e = Len(s) \/ ~InClass(class, s[e + 1]))

\* the greatest and the least position of a set of positions, 0 for none
Greatest(positions) ==
    IF positions = {} THEN 0 ELSE CHOOSE g \in positions : \A h \in positions : h <= g

Least(positions) ==
    IF positions = {} THEN 0 ELSE CHOOSE g \in positions : \A h \in positions : g <= h

\* where the group of \s*(C...) starts when matching from p: the greedy \s*
\* gives characters back until a character of C follows it; 0 when none does
GroupStart(s, p, class) ==
    Greatest({g \in p..(ClassRunEnd(s, p, "\\s") + 1) : g <= Len(s) /\ InClass(class, s[g])})

NoGroup == <<"NoGroup">>

\* the group C+ (n = 0) or C{n} between g and the end e of the run of C
GroupBetween(s, g, e, n) ==
    IF n = 0 THEN SubSeq(s, g, e)
    ELSE IF e - g + 1 >= n THEN SubSeq(s, g, g + n - 1)
    ELSE NoGroup

\* the group that starts at g, NoGroup when g = 0
GroupFrom(s, g, class, n) ==
    IF g = 0 THEN NoGroup ELSE GroupBetween(s, g, ClassRunEnd(s, g, class), n)

\* group(1) when label\s*(C+) (n = 0) or label\s*(C{n}) matches at i
GroupAt(s, i, label, class, n) ==
    IF ~LiteralAt(s, i, label) THEN NoGroup
    ELSE GroupFrom(s, GroupStart(s, i + Len(label), class), class, n)

\* pattern.search(s): group(1) of the leftmost match, NoGroup without a match
PatternSearch(s, label, class, n) ==
    GroupAt(s, Least({i \in 1..Len(s) : GroupAt(s, i, label, class, n) # NoGroup}),
            label, class, n)

\* s from the least to the greatest position of keep
Between(s, keep) == IF keep = {} THEN <<>> ELSE SubSeq(s, Least(keep), Greatest(keep))

\* str.strip()
Strip(s) == Between(s, {i \in 1..Len(s) : ~IsSpace(s[i])})

\* str.split(sep)
RECURSIVE Split(_, _)
RECURSIVE SplitAt(_, _, _)
Split(s, sep) ==
    SplitAt(s, sep, Least({i \in 1..(Len(s) - Len(sep) + 1) :
                             SubSeq(s, i, i + Len(sep) - 1) = sep}))

\* s split at its first separator, which stands at i (0: there is none)
SplitAt(s, sep, i) ==
    IF i = 0 THEN <<s>>
    ELSE <<SubSeq(s, 1, i - 1)>> \o Split(SubSeq(s, i + Len(sep), Len(s)), sep)

StripAll(parts) == [k \in 1..Len(parts) |-> Strip(parts[k])]

\* [part.strip() for part in s.split(',')]
StrippedParts(s) == StripAll(Split(s, <<",">>))

\* \b at position i: one of s[i - 1] and s[i] is a word character, not both
Boundary(s, i) == (i > 1 /\ IsWord(s[i - 1])) # (i <= Len(s) /\ IsWord(s[i]))

\* the positions at which [A-Za-z0-9.-]+\.[A-Z|a-z]{2,}\b can end when it
\* starts behind the '@' at a
DomainEnds(s, a) ==
    {t \in (a + 4)..Len(s) :
       /\ Boundary(s, t + 1)
       /\ \E d \in (a + 2)..(t - 2) :
             /\ s[d] = "."
             /\ \A k \in (a + 1)..(d - 1) : InClass("[A-Za-z0-9.-]", s[k])
             /\ \A k \in (d + 1)..t : InClass("[A-Z|a-z]", s[k])}

\* the end of the email that starts at i with its local part ending before a
EmailEndAfter(s, i, a) ==
    IF Boundary(s, i) /\ a > i /\ a <= Len(s) /\ s[a] = "@"
    THEN Greatest(DomainEnds(s, a))
    ELSE 0

\* the end of the match of the email pattern (line 17) that starts at i, 0
\* when there is none: the local part runs up to the '@', and the greedy
\* domain and top-level parts end as far right as a '.', two or more
\* characters of [A-Z|a-z] and a \b allow
EmailEnd(s, i) == EmailEndAfter(s, i, ClassRunEnd(s, i, "[A-Za-z0-9._%+-]") + 1)

\* j + 1 when the optional character of a class stands at j, else j
Optional(s, j, class) == IF j <= Len(s) /\ InClass(class, s[j]) THEN j + 1 ELSE j

\* \d{n} at j
DigitsAt(s, j, n) == j + n - 1 <= Len(s) /\ \A k \in j..(j + n - 1) : IsDigit(s[k])

\* \d{4} at third ends the phone
PhoneThird(s, third) == IF DigitsAt(s, third, 4) THEN third + 3 ELSE 0

\* \d{3}[-.\s]?\d{4} at second
PhoneRest(s, second) ==
    IF DigitsAt(s, second, 3) THEN PhoneThird(s, Optional(s, second + 3, "[-.\\s]")) ELSE 0

\* \d{3}\)?[-.\s]?\d{3}[-.\s]?\d{4} at first
PhoneSecond(s, first) ==
    IF DigitsAt(s, first, 3)
    THEN PhoneRest(s, Optional(s, Optional(s, first + 3, "\\)"), "[-.\\s]"))
    ELSE 0

\* the end of the match of the phone pattern (line 18) that starts at i, 0
\* when there is none
PhoneEnd(s, i) == PhoneSecond(s, Optional(s, i, "\\("))

\* the end of the match of the pattern of that key that starts at i
MatchEnd(key, s, i) == IF key = "email" THEN EmailEnd(s, i) ELSE PhoneEnd(s, i)

\* the match of the pattern of that key that starts at i (0: none starts)
MatchFrom(s, key, i) == IF i = 0 THEN NoGroup ELSE SubSeq(s, i, MatchEnd(key, s, i))

\* self.patterns[key].findall(s)[0] for the email or the phone pattern;
\* NoGroup when findall returns the empty list
FirstMatch(s, key) == MatchFrom(s, key, Least({i \in 1..Len(s) : MatchEnd(key, s, i) # 0}))

ProfileClass == <<"p","r","o","f","i","l","e">>
PastPerformanceClass == <<"p","a","s","t","_","p","e","r","f","o","r","m",
    "a","n","c","e">>
PricingClass == <<"p","r","i","c","i","n","g">>
UnknownClass == <<"u","n","k","n","o","w","n">>

\* the keywords of lines 62, 66 and 70
ProfileKeywords ==
    {<<"u","e","i",":">>, <<"d","u","n","s",":">>, <<"s","a","m",".","g",
        "o","v">>,
     <<"p","r","i","m","a","r","y"," ","c","o","n","t","a","c","t">>,
     <<"p","o","c",":">>}

PastPerformanceKeywords ==
    {<<"p","a","s","t"," ","p","e","r","f","o","r","m","a","n","c","e">>,
     <<"c","u","s","t","o","m","e","r",":">>, <<"c","o","n","t","r","a","c",
         "t",":">>,
     <<"v","a","l","u","e",":">>, <<"p","e","r","i","o","d",":">>}

PricingKeywords ==
    {<<"l","a","b","o","r"," ","c","a","t","e","g","o","r","y">>,
     <<"r","a","t","e">>, <<"p","r","i","c","i","n","g">>, <<"h","o","u",
         "r">>, <<"d","a","y">>}

\* any(keyword in s for keyword in keywords)
ContainsAny(s, keywords) == \E keyword \in keywords : Contains(s, keyword)

\* the classifier that looks at the text before the hint
classify_document_text_first(text, type_hint) ==
    LET text_lower == Lower(text) IN
    IF ContainsAny(text_lower, ProfileKeywords) THEN ProfileClass
    ELSE IF ContainsAny(text_lower, PastPerformanceKeywords) THEN PastPerformanceClass
    ELSE IF ContainsAny(text_lower, PricingKeywords) THEN PricingClass
    ELSE IF Truthy(type_hint) THEN type_hint
    ELSE UnknownClass

\* lines 54-73
classify_document(text, type_hint) ==
    IF Truthy(type_hint) THEN type_hint
    ELSE LET text_lower == Lower(text) IN
         IF ContainsAny(text_lower, ProfileKeywords) THEN ProfileClass
         ELSE IF ContainsAny(text_lower, PastPerformanceKeywords) THEN PastPerformanceClass
         ELSE IF ContainsAny(text_lower, PricingKeywords) THEN PricingClass
         ELSE UnknownClass

\* the profile fields when a uei that is already set is kept
ProfileFieldsKeepFirst(data, uei_match, duns_match, naics_match, sam_match, email, phone) ==
    [data EXCEPT
       !.uei = IF uei_match # NoGroup /\ @ = None THEN uei_match ELSE @,
       !.duns = IF duns_match # NoGroup THEN duns_match ELSE @,
       !.naics_codes = IF naics_match # NoGroup THEN @ \o StrippedParts(naics_match) ELSE @,
       !.sam_status = IF sam_match # NoGroup THEN Strip(sam_match) ELSE @,
       !.primary_contact = IF email # NoGroup /\ phone # NoGroup
                           THEN <<email, phone>> ELSE @]

\* lines 79-108 on the matches of the patterns
ProfileFields(data, uei_match, duns_match, naics_match, sam_match, email, phone) ==
    [data EXCEPT
       !.uei = IF uei_match # NoGroup THEN uei_match ELSE @,
       !.duns = IF duns_match # NoGroup THEN duns_match ELSE @,
       !.naics_codes = IF naics_match # NoGroup THEN @ \o StrippedParts(naics_match) ELSE @,
       !.sam_status = IF sam_match # NoGroup THEN Strip(sam_match) ELSE @,
       !.primary_contact = IF email # NoGroup /\ phone # NoGroup
                           THEN <<email, phone>> ELSE @]

\* lines 75-108
extract_profile_fields(text, data) ==
    ProfileFields(data,
                  PatternSearch(text, <<"u","e","i",":">>, "[A-Z0-9]", 12),
                  PatternSearch(text, <<"d","u","n","s",":">>, "\\d", 9),
                  PatternSearch(text, <<"n","a","i","c","s",":">>, "[0-9,\\s]", 0),
                  PatternSearch(text, <<"s","a","m",".","g","o","v",":">>, "[a-zA-Z\\s]", 0),
                  FirstMatch(text, "email"),
                  FirstMatch(text, "phone"))

\* the labels of lines 19-23 with the keys of pp_data they fill
PastPerformanceLabels ==
    [customer |-> <<"c","u","s","t","o","m","e","r",":">>,
     contract |-> <<"c","o","n","t","r","a","c","t",":">>,
     value |-> <<"v","a","l","u","e",":">>,
     period |-> <<"p","e","r","i","o","d",":">>,
     contact |-> <<"c","o","n","t","a","c","t",":">>]

\* Label:\s*([^\n]+) searched in a section
LabelSearch(section, key) ==
    PatternSearch(section, PastPerformanceLabels[key], "[^\\n]", 0)

\* pp_data of lines 117-142: the keys whose label matched
PastPerformanceData(section) ==
    [key \in {k \in DOMAIN PastPerformanceLabels : LabelSearch(section, k) # NoGroup} |->
        Strip(LabelSearch(section, key))]

\* lines 110-145
extract_past_performance_fields(text, data) ==
    LET sections == SelectSeq(Split(text, <<"\n", "\n">>),
                              LAMBDA section :
                                  /\ ContainsAny(Lower(section),
                                                 {PastPerformanceLabels.customer,
                                                  PastPerformanceLabels.contract})
                                  /\ DOMAIN PastPerformanceData(section) # {})
    IN  [data EXCEPT !.past_performance =
             @ \o [k \in 1..Len(sections) |-> PastPerformanceData(sections[k])]]

\* lines 156-160
PricingItem(parts) == [labor_category |-> parts[1], rate |-> parts[2], unit |-> parts[3]]

\* lines 147-161
extract_pricing_fields(text, data) ==
    LET rows == SelectSeq(Split(text, <<"\n">>),
                          LAMBDA line :
                              /\ Contains(line, <<",">>)
                              /\ ContainsAny(Lower(line),
                                             {<<"l","a","b","o","r">>,
                                              <<"r","a","t","e">>,
                                              <<"h","o","u","r">>,
                                              <<"d","a","y">>})
                              /\ Len(Split(line, <<",">>)) >= 3)
    IN  [data EXCEPT !.pricing_data =
             @ \o [k \in 1..Len(rows) |-> PricingItem(StrippedParts(rows[k]))]]

\* the class put in front of document_types
TypedFirst(data, doc_type) == [data EXCEPT !.document_types = <<doc_type>> \o @]

\* line 42
Typed(data, doc_type) == [data EXCEPT !.document_types = Append(@, doc_type)]

\* a loop body that extracts a profile under the two other classes as well
ExtractEveryClass(text, doc_type, data) ==
    IF doc_type = ProfileClass
    THEN extract_pricing_fields(
             text, extract_past_performance_fields(
                       text, extract_profile_fields(text, Typed(data, doc_type))))
    ELSE IF doc_type = PastPerformanceClass
    THEN extract_past_performance_fields(text, Typed(data, doc_type))
    ELSE IF doc_type = PricingClass THEN extract_pricing_fields(text, Typed(data, doc_type))
    ELSE Typed(data, doc_type)

\* lines 42-50 for a document of class doc_type
Extract(text, doc_type, data) ==
    IF doc_type = ProfileClass THEN extract_profile_fields(text, Typed(data, doc_type))
    ELSE IF doc_type = PastPerformanceClass
    THEN extract_past_performance_fields(text, Typed(data, doc_type))
    ELSE IF doc_type = PricingClass THEN extract_pricing_fields(text, Typed(data, doc_type))
    ELSE Typed(data, doc_type)

\* lines 42-50 with a last branch that empties the lists
ExtractOrClear(text, doc_type, data) ==
    IF doc_type \in {ProfileClass, PastPerformanceClass, PricingClass}
    THEN Extract(text, doc_type, data)
    ELSE [Typed(data, doc_type) EXCEPT !.past_performance = <<>>, !.pricing_data = <<>>]

\* the loop body in which a document of unknown class empties the lists
ProcessOneUnknownClears(document, data) ==
    ExtractOrClear(document.text, classify_document(document.text, document.type_hint), data)

\* lines 39-50: the body of the loop for one document
ProcessOne(document, data) ==
    Extract(document.text, classify_document(document.text, document.type_hint), data)

\* the loop of lines 39-50 from document i on
RECURSIVE ProcessFrom(_, _, _)
ProcessFrom(docs, i, data) ==
    IF i > Len(docs) THEN data
    ELSE ProcessFrom(docs, i + 1, ProcessOne(docs[i], data))

\* lines 26-52
process_documents(docs) == ProcessFrom(docs, 1, UnsetFacts)

(***************************************************************************)
(* Documents.                                                              *)
(***************************************************************************)
ProfileText ==
    <<"U","E","I",":"," ","A","B","C","1","2","3","D","E","F","4","5","6",
        "\n","D","U","N","S",":"," ","1","2","3","4","5","6","7","8","9",
        "\n","S","A","M",".","g","o","v",":"," ","A","c","t","i","v","e">>

PastPerformanceText ==
    <<"C","u","s","t","o","m","e","r",":"," ","C","i","t","y","\n","V","a",
        "l","u","e",":"," ","$","3","0",",","0","0","0">>

PricingText == <<"D","e","v",","," ","1","5","0",","," ","H","o","u","r">>

UnmarkedText == <<"H","e","l","l","o">>

\* markers of two classes, past performance and pricing
MixedText == <<"V","a","l","u","e",":"," ","9","\n","D","e","v",","," ","1",
    "5","0",","," ","H","o","u","r">>

ContactText == <<"P","O","C",":"," ","a","@","b",".","c","o"," ","5","5",
    "5","-","1","2","3","-","4","5","6","7">>

\* a second profile with other contact details
SecondContactText ==
    <<"P","r","i","m","a","r","y"," ","c","o","n","t","a","c","t",":"," ","c",
      "@","d",".","i","o"," ","(","5","5","5",")"," ","9","8","7","-","6","5",
      "4","3">>

\* one text with profile fields, a past performance block and a pricing row,
\* as the single document that app.py builds from the text area
CombinedText ==
    <<"U","E","I",":"," ","X","Y","Z","7","8","9","G","H","I","0","1","2",
      "\n","N","A","I","C","S",":"," ","5","4","1","5","1","1",","," ","5",
      "4","1","5","1","2","\n","S","A","M",".","g","o","v",":"," ","I","n",
      "a","c","t","i","v","e",".","\n","\n","C","u","s","t","o","m","e","r",
      ":"," ","C","i","t","y","\n","V","a","l","u","e",":"," ","$","3","0",
      ",","0","0","0","\n","\n","D","e","v",","," ","1","5","0",","," ","H",
      "o","u","r">>

\* the documents of a submission: texts of every class without a hint, and
\* hints that name another class than the text, no known class, or are empty
Documents ==
    {[text |-> t, type_hint |-> None] :
        t \in {ProfileText, PastPerformanceText, PricingText, UnmarkedText,
               MixedText, ContactText, SecondContactText, CombinedText}}
    \cup {[text |-> PricingText, type_hint |-> ProfileClass],
          [text |-> ProfileText, type_hint |-> <<"i","n","v","o","i","c","e">>],
          [text |-> PastPerformanceText, type_hint |-> <<>>],
          [text |-> UnmarkedText, type_hint |-> PricingClass]}

MaxDocuments == 2

DocumentLists == SeqsUpTo(Documents, MaxDocuments)

(***************************************************************************)
(* The PII redactor (backend/services/pii_redactor.py, PIIRedactor).       *)
(* pattern.sub(token, s) replaces the non-overlapping matches of a         *)
(* pattern from left to right; no pattern matches the empty string.        *)
(***************************************************************************)
\* the pattern of lines 9-11
email_pattern == "\\b[A-Za-z0-9._%+-]+@[A-Za-z0-9.-]+\\.[A-Z|a-z]{2,}\\b"

\* the patterns of lines 14-20, in the order of the list
phone_patterns ==
    <<"\\(\\d{3}\\)\\s*\\d{3}-\\d{4}",
      "\\d{3}-\\d{3}-\\d{4}",
      "\\d{3}\\.\\d{3}\\.\\d{4}",
      "\\d{10}",
      "\\+1\\s*\\d{3}\\s*\\d{3}\\s*\\d{4}">>

EmailToken ==
    <<"[","E","M","A","I","L","_","R","E","D","A","C","T","E","D","]">>

PhoneToken ==
    <<"[","P","H","O","N","E","_","R","E","D","A","C","T","E","D","]">>

\* the position behind the character c when it stands at j, else 0; a
\* position 0 is a part of the pattern that did not match
CharAt(s, j, c) == IF j >= 1 /\ j <= Len(s) /\ s[j] = c THEN j + 1 ELSE 0

\* the position behind \d{n} at j, else 0
DigitsFrom(s, j, n) == IF j >= 1 /\ DigitsAt(s, j, n) THEN j + n ELSE 0

\* the position behind the greedy \s* at j; a digit follows it in every
\* pattern, so that it never gives a character back
SpacesFrom(s, j) == IF j = 0 THEN 0 ELSE ClassRunEnd(s, j, "\\s") + 1

\* the position behind \d{3}<c>\d{3}<c>\d{4} at i, else 0
SeparatedBy(s, i, c) ==
    DigitsFrom(s, CharAt(s, DigitsFrom(s, CharAt(s, DigitsFrom(s, i, 3), c), 3), c), 4)

\* the position behind \(\d{3}\)\s*\d{3}-\d{4} at i, else 0
Parenthesized(s, i) ==
    DigitsFrom(s, CharAt(s, DigitsFrom(s, SpacesFrom(s,
        CharAt(s, DigitsFrom(s, CharAt(s, i, "("), 3), ")")), 3), "-"), 4)

\* the position behind \+1\s*\d{3}\s*\d{3}\s*\d{4} at i, else 0
PlusOne(s, i) ==
    DigitsFrom(s, SpacesFrom(s, DigitsFrom(s, SpacesFrom(s, DigitsFrom(s, SpacesFrom(s,
        CharAt(s, CharAt(s, i, "+"), "1")), 3)), 3)), 4)

\* the position behind the email that starts at i, else 0; the pattern is
\* the one of the document processor
EmailBehind(s, end) == IF end = 0 THEN 0 ELSE end + 1

\* the position behind the match of a pattern that starts at i, 0 when
\* none starts there
PatternBehind(pattern, s, i) ==
    CASE pattern = email_pattern -> EmailBehind(s, EmailEnd(s, i))
      [] pattern = phone_patterns[1] -> Parenthesized(s, i)
      [] pattern = phone_patterns[2] -> SeparatedBy(s, i, "-")
      [] pattern = phone_patterns[3] -> SeparatedBy(s, i, ".")
      [] pattern = phone_patterns[4] -> DigitsFrom(s, i, 10)
      [] pattern = phone_patterns[5] -> PlusOne(s, i)

RECURSIVE SubFrom(_, _, _, _)
\* s from pos on with the matches replaced, the next match starting at next
\* (0: there is none)
SubAt(pattern, token, s, pos, next) ==
    IF next = 0 THEN SubSeq(s, pos, Len(s))
    ELSE SubSeq(s, pos, next - 1) \o token
           \o SubFrom(pattern, token, s, PatternBehind(pattern, s, next))

\* s from pos on with the matches of the pattern replaced by the token
SubFrom(pattern, token, s, pos) ==
    SubAt(pattern, token, s, pos,
          Least({i \in pos..Len(s) : PatternBehind(pattern, s, i) # 0}))

\* pattern.sub(token, s)
sub(pattern, token, s) == SubFrom(pattern, token, s, 1)

RECURSIVE RedactPhones(_, _)
\* the loop of lines 30-31 from the k-th phone pattern on
RedactPhones(redacted_text, k) ==
    IF k > Len(phone_patterns) THEN redacted_text
    ELSE RedactPhones(sub(phone_patterns[k], PhoneToken, redacted_text), k + 1)

\* PIIRedactor.redact(text), lines 22-33
redact(text) == RedactPhones(sub(email_pattern, EmailToken, text), 1)

\* the texts that are redacted: up to MaxPieces pieces, one behind the other
MaxPieces == 2

EmailPiece ==
    <<"a","@","b",".","c","o">>

ParenthesizedPiece ==
    <<"(","4","1","5",")"," ","5","5","5","-","0","1","0","0">>

HyphenatedPiece ==
    <<"4","1","5","-","5","5","5","-","0","1","0","0">>

DottedPiece ==
    <<"4","1","5",".","5","5","5",".","0","1","0","0">>

BarePiece ==
    <<"4","1","5","5","5","5","0","1","0","0">>

PlusOnePiece ==
    <<"+","1"," ","4","1","5"," ","5","5","5"," ","0","1","0","0">>

PhonePieces == {ParenthesizedPiece, HyphenatedPiece, DottedPiece, BarePiece, PlusOnePiece}

Pieces == {EmailPiece} \cup PhonePieces \cup {<<"+", "1">>, <<" ">>, <<"x">>, <<"0">>}

RedactorTexts == {Flatten(pieces) : pieces \in SeqsUpTo(Pieces, MaxPieces)}

(***************************************************************************)
(* The state machine: an AIService is constructed, and generate_checklist  *)
(* is called on one fact set with citation lists of the caller's choice.   *)
(* prev_rules and prev_checklist remember the call before the last one.    *)
(***************************************************************************)
\* no PIIRedactor is called
RedactorIdle ==
    /\ input_text = None
    /\ redacted_once = None
    /\ redacted_twice = None

\* no request reaches the API
ApiIdle ==
    /\ document_store = NoResult
    /\ analysis_store = NoResult
    /\ ingested = <<>>
    /\ response = NoResult

ServicesIdle == RedactorIdle /\ ApiIdle

\* no RAGService takes part: its variables hold no value
RetrieverIdle ==
    /\ self_rules = NoResult
    /\ rule_texts = NoResult
    /\ rule_ids = NoResult
    /\ embeddings = NoResult
    /\ build_outcome = NoResult
    /\ query_data = NoResult
    /\ retrieval = NoResult
    /\ noted_query = NoResult
    /\ noted_retrieval = NoResult
    /\ removed = {}

Init ==
    /\ use_mock = TRUE
    /\ parsed_data \in FactSets
    /\ relevant_rules = <<>>
    /\ checklist = NoResult
    /\ prev_rules = <<>>
    /\ prev_checklist = NoResult
    /\ RetrieverIdle
    /\ documents = NoResult
    /\ ServicesIdle

GenerateChecklist(rules) ==
    /\ relevant_rules' = rules
    /\ checklist' = generate_checklist(use_mock, parsed_data, rules)
    /\ prev_rules' = relevant_rules
    /\ prev_checklist' = checklist
    /\ UNCHANGED <<use_mock, parsed_data>>
    /\ UNCHANGED <<retrieverVars, documents, serviceVars>>

Next == \E rules \in CitationLists : GenerateChecklist(rules)

Spec == Init /\ [][Next]_vars

(***************************************************************************)
(* The retriever's state machine: a RAGService is constructed with its     *)
(* five rules; a rule is deleted from self.rules and the index rebuilt;    *)
(* get_relevant_rules is called on a fact set.  query_data and retrieval   *)
(* are the last call on the present index; noted_query and noted_retrieval *)
(* are an earlier call that is remembered, and removed holds the rules     *)
(* deleted since that call was made.                                       *)
(***************************************************************************)
\* no AIService takes part
EvaluatorIdle ==
    /\ use_mock = TRUE
    /\ parsed_data = NoResult
    /\ relevant_rules = <<>>
    /\ checklist = NoResult
    /\ prev_rules = <<>>
    /\ prev_checklist = NoResult

\* RAGService(), lines 10-49
RetrieverInit ==
    /\ self_rules = RuleIds
    /\ \E index \in {build_index(RuleIds, NoResult)} :
          /\ rule_texts = index.rule_texts
          /\ rule_ids = index.rule_ids
          /\ embeddings = index.embeddings
          /\ build_outcome = index.outcome
    /\ query_data = NoResult
    /\ retrieval = NoResult
    /\ noted_query = NoResult
    /\ noted_retrieval = NoResult
    /\ removed = {}
    /\ EvaluatorIdle
    /\ documents = NoResult
    /\ ServicesIdle

\* del rules[rule_id], then _build_index()
RemoveRule(rule_id) ==
    /\ \E i \in 1..Len(self_rules) : self_rules[i] = rule_id
    /\ self_rules' = SelectSeq(self_rules, LAMBDA r : r # rule_id)
    /\ \E index \in {build_index(self_rules', embeddings)} :
          /\ rule_texts' = index.rule_texts
          /\ rule_ids' = index.rule_ids
          /\ embeddings' = index.embeddings
          /\ build_outcome' = index.outcome
    /\ query_data' = NoResult
    /\ retrieval' = NoResult
    /\ removed' = IF noted_retrieval = NoResult THEN {} ELSE removed \cup {rule_id}
    /\ UNCHANGED <<noted_query, noted_retrieval>>
    /\ UNCHANGED <<checklistVars, documents, serviceVars>>

\* a call that leaves its query embedding in self.embeddings
GetRelevantRulesKeepingQuery(data, note) ==
    /\ query_data' = data
    /\ retrieval' = get_relevant_rules(data, rule_ids, rule_texts, embeddings)
    /\ embeddings' = LET e == QueryEmbeddings[QueryText(data)]
                     IN  IF e = ValueError THEN embeddings ELSE e
    /\ IF note /\ retrieval # NoResult
       THEN noted_query' = query_data /\ noted_retrieval' = retrieval /\ removed' = {}
       ELSE UNCHANGED <<noted_query, noted_retrieval, removed>>
    /\ UNCHANGED <<self_rules, rule_texts, rule_ids, build_outcome>>
    /\ UNCHANGED <<checklistVars, documents, serviceVars>>

\* await rag_service.get_relevant_rules(data); with note, the call before
\* this one becomes the remembered call
GetRelevantRules(data, note) ==
    /\ query_data' = data
    /\ retrieval' = get_relevant_rules(data, rule_ids, rule_texts, embeddings)
    /\ IF note /\ retrieval # NoResult
       THEN noted_query' = query_data /\ noted_retrieval' = retrieval /\ removed' = {}
       ELSE UNCHANGED <<noted_query, noted_retrieval, removed>>
    /\ UNCHANGED <<self_rules, rule_texts, rule_ids, embeddings, build_outcome>>
    /\ UNCHANGED <<checklistVars, documents, serviceVars>>

RetrieverNext ==
    \/ \E rule_id \in Range(RuleIds) : RemoveRule(rule_id)
    \/ \E data \in RetrievalFactSets, note \in BOOLEAN : GetRelevantRules(data, note)

RetrieverSpec == RetrieverInit /\ [][RetrieverNext]_vars

(***************************************************************************)
(* The processor's state machine: a submission of documents is processed   *)
(* by process_documents and the fact set it returns is evaluated by        *)
(* generate_checklist.                                                     *)
(***************************************************************************)
ProcessorInit ==
    /\ documents \in DocumentLists
    /\ use_mock = TRUE
    /\ parsed_data = NoResult
    /\ relevant_rules = <<>>
    /\ checklist = NoResult
    /\ prev_rules = <<>>
    /\ prev_checklist = NoResult
    /\ RetrieverIdle
    /\ ServicesIdle

\* parsed_data = await doc_processor.process_documents(documents)
ProcessDocuments ==
    /\ parsed_data = NoResult
    /\ parsed_data' = process_documents(documents)
    /\ UNCHANGED <<use_mock, relevant_rules, checklist, prev_rules, prev_checklist>>
    /\ UNCHANGED <<retrieverVars, documents, serviceVars>>

\* checklist = await ai_service.generate_checklist(parsed_data, rules)
EvaluateFacts(rules) ==
    /\ parsed_data # NoResult
    /\ GenerateChecklist(rules)

ProcessorNext ==
    \/ ProcessDocuments
    \/ \E rules \in CitationLists : EvaluateFacts(rules)

ProcessorSpec == ProcessorInit /\ [][ProcessorNext]_vars

(***************************************************************************)
(* The redactor's state machine: a text is redacted, and the result is     *)
(* redacted once more.                                                     *)
(***************************************************************************)
RedactorInit ==
    /\ input_text \in RedactorTexts
    /\ redacted_once = None
    /\ redacted_twice = None
    /\ ApiIdle
    /\ EvaluatorIdle
    /\ RetrieverIdle
    /\ documents = NoResult

\* redacted_text = pii_redactor.redact(text)
Redact ==
    /\ redacted_once = None
    /\ redacted_once' = redact(input_text)
    /\ UNCHANGED <<input_text, redacted_twice>>
    /\ UNCHANGED <<checklistVars, retrieverVars, documents, apiVars>>

\* pii_redactor.redact(redacted_text)
RedactAgain ==
    /\ redacted_once # None
    /\ redacted_twice = None
    /\ redacted_twice' = redact(redacted_once)
    /\ UNCHANGED <<input_text, redacted_once>>
    /\ UNCHANGED <<checklistVars, retrieverVars, documents, apiVars>>

RedactorNext == Redact \/ RedactAgain

RedactorSpec == RedactorInit /\ [][RedactorNext]_vars

(***************************************************************************)
(* The API (backend/main.py).  The handlers are coroutines that await no   *)
(* I/O, so the event loop runs each request to its end before the next:    *)
(* a request is one step.  A dict is a function on its keys.  A request id *)
(* is a str(uuid.uuid4()), shortened to its first two characters; uuid4    *)
(* returns an id that no earlier request was given.  An exception that     *)
(* leaves a handler is the response with its status code.                  *)
(***************************************************************************)
MaxIngests == 2

MaxApiDocuments == 1

Uuids == {<<"0", "b">>, <<"3", "e">>, <<"9", "a">>, <<"c", "4">>}

\* the documents of an IngestRequest
ApiDocuments ==
    {[text |-> t, type_hint |-> None] : t \in {ProfileText, PastPerformanceText, ContactText}}

ApiDocumentLists == SeqsUpTo(ApiDocuments, MaxApiDocuments)

\* {}
EmptyDict == [k \in {} |-> None]

\* d[key] = value
Put(d, key, value) == [k \in DOMAIN d \cup {key} |-> IF k = key THEN value ELSE d[k]]

\* d.get(key, default)
GetOr(d, key, default) == IF key \in DOMAIN d THEN d[key] ELSE default

HTTPException(status_code, detail) ==
    [exception |-> "HTTPException", status_code |-> status_code, detail |-> detail]

\* the Document of lines 52-61
StoredDocument(doc_data) ==
    [text |-> doc_data.text, type_hint |-> doc_data.type_hint,
     redacted_text |-> redact(doc_data.text)]

\* the summary of lines 68-73
Summary(doc_data) ==
    [type_hint |-> doc_data.type_hint, text_length |-> Len(doc_data.text),
     redacted |-> redact(doc_data.text) # doc_data.text]

RECURSIVE StoreFrom(_, _, _, _)
\* document_store behind the loop of lines 50-65 from the i-th document on
StoreFrom(store, request_id, request_documents, i) ==
    IF i > Len(request_documents) THEN store
    ELSE StoreFrom(Put(store, request_id,
                       Append(GetOr(store, request_id, <<>>),
                              StoredDocument(request_documents[i]))),
                   request_id, request_documents, i + 1)

\* the IngestResponse of lines 76-79
IngestResponse(request_id, request_documents) ==
    [endpoint |-> "ingest", status_code |-> 200, request_id |-> request_id,
     doc_summaries |-> [i \in 1..Len(request_documents) |-> Summary(request_documents[i])]]

\* max(document_store.keys()): the greatest string
LatestKey(store) == CHOOSE k \in DOMAIN store : \A h \in DOMAIN store : h = k \/ Less(h, k)

\* lines 89-97: the key whose documents are analyzed, None when the
\* HTTPException of line 97 is raised
SelectedKey(request_id, store) ==
    IF request_id # None /\ request_id # <<>> /\ request_id \in DOMAIN store THEN request_id
    ELSE IF DOMAIN store # {} THEN LatestKey(store)
    ELSE None

\* the problems that the brief and the client email list, lines 225 and 265
Problems(items) ==
    SelectSeq([i \in 1..Len(items) |-> items[i].problem], LAMBDA problem : problem # None)

\* lines 109-124 given the checklist: ValueError when generate_checklist
\* raised, else analysis_result; the brief is the problems it lists and the
\* rules it cites, the client email the problems it lists
ResultWith(request_id, parsed, rules, checked) ==
    IF checked = ValueError THEN [raised |-> ValueError]
    ELSE [result |->
            [parsed |-> parsed, checklist |-> checked,
             brief |-> [problems |-> Problems(checked.items),
                        citations |-> [i \in 1..Len(rules) |-> rules[i].rule_id]],
             client_email |-> [problems |-> Problems(checked.items)],
             citations |-> rules, request_id |-> request_id]]

\* lines 106-124 given what get_relevant_rules has done
ResultCited(request_id, parsed, retrieved, mock) ==
    IF "relevant_rules" \notin DOMAIN retrieved THEN [raised |-> retrieved]
    ELSE ResultWith(request_id, parsed, retrieved.relevant_rules,
                    generate_checklist(mock, parsed, retrieved.relevant_rules))

\* lines 103-124 given the facts of the documents
ResultOf(request_id, parsed, mock, ids, texts, index) ==
    ResultCited(request_id, parsed, get_relevant_rules(parsed, ids, texts, index), mock)

\* lines 89-124 given the selected key: what the try block raises, or
\* analysis_result; read is the key whose documents were analyzed
AnalysisOf(key, store, mock, ids, texts, index) ==
    IF key = None
    THEN [raised |-> HTTPException(400, "No documents found to analyze"), read |-> None]
    ELSE [read |-> key]
           @@ ResultOf(key, process_documents(store[key]), mock, ids, texts, index)

\* the response to an analyze request: the AnalyzeResponse of line 124, or
\* the HTTPException of line 127, which wraps whatever the try block raised
AnalyzeResponse(request_id, outcome) ==
    IF "result" \in DOMAIN outcome
    THEN [endpoint |-> "analyze", given |-> request_id, status_code |-> 200,
          body |-> outcome.result, read |-> outcome.read]
    ELSE [endpoint |-> "analyze", given |-> request_id, status_code |-> 500,
          detail |-> [prefix |-> "Error analyzing documents: ", e |-> outcome.raised],
          read |-> outcome.read]

\* analysis_store behind line 122
AnalysisStored(store, outcome) ==
    IF "result" \in DOMAIN outcome
    THEN Put(store, outcome.result.request_id, outcome.result)
    ELSE store

\* the module is loaded, lines 28-36
ApiInit ==
    /\ document_store = EmptyDict
    /\ analysis_store = EmptyDict
    /\ ingested = <<>>
    /\ response = NoResult
    /\ self_rules = RuleIds
    /\ \E index \in {build_index(RuleIds, NoResult)} :
          /\ rule_texts = index.rule_texts
          /\ rule_ids = index.rule_ids
          /\ embeddings = index.embeddings
          /\ build_outcome = index.outcome
    /\ query_data = NoResult
    /\ retrieval = NoResult
    /\ noted_query = NoResult
    /\ noted_retrieval = NoResult
    /\ removed = {}
    /\ EvaluatorIdle
    /\ RedactorIdle
    /\ documents = NoResult

\* POST /ingest, lines 43-82
IngestDocuments(request_documents, request_id) ==
    /\ Len(ingested) < MaxIngests
    /\ request_id \notin Range(ingested)
    /\ document_store' = StoreFrom(document_store, request_id, request_documents, 1)
    /\ ingested' = Append(ingested, request_id)
    /\ response' = IngestResponse(request_id, request_documents)
    /\ UNCHANGED analysis_store
    /\ UNCHANGED <<checklistVars, retrieverVars, documents, redactorVars>>

\* POST /analyze, lines 84-127
AnalyzeDocuments(request_id) ==
    /\ \E outcome \in {AnalysisOf(SelectedKey(request_id, document_store), document_store,
                                  use_mock, rule_ids, rule_texts, embeddings)} :
          /\ analysis_store' = AnalysisStored(analysis_store, outcome)
          /\ response' = AnalyzeResponse(request_id, outcome)
    /\ UNCHANGED <<document_store, ingested>>
    /\ UNCHANGED <<checklistVars, retrieverVars, documents, redactorVars>>

ApiNext ==
    \/ \E request_documents \in ApiDocumentLists, request_id \in Uuids :
          IngestDocuments(request_documents, request_id)
    \/ \E request_id \in Uuids \cup {None} : AnalyzeDocuments(request_id)

ApiSpec == ApiInit /\ [][ApiNext]_vars

(***************************************************************************)
(* Properties of the checklist evaluator.                                  *)
(***************************************************************************)
\* the last call of generate_checklist returned a checklist
Returned(c) == c # NoResult /\ c # ValueError

Items == checklist.items

AllOk(c) == \A i \in 1..Len(c.items) : c.items[i].ok

\* the amount the evaluator is to use for an entry: the parsed number, 0 when
\* the entry has no value or its value has no parseable digits
Amount(pp) == IF EntryAmount(pp).raised THEN 0 ELSE EntryAmount(pp).value

SomeEntryMeetsMinimum(data) ==
    \E i \in 1..Len(data.past_performance) : Amount(data.past_performance[i]) >= 25000

HasRateAndUnit(pricing) ==
    /\ "rate" \in DOMAIN pricing /\ pricing.rate # <<>> /\ pricing.rate # None
    /\ "unit" \in DOMAIN pricing /\ pricing.unit # <<>> /\ pricing.unit # None

PricingComplete(data) ==
    /\ data.pricing_data # <<>>
    /\ \A i \in 1..Len(data.pricing_data) : HasRateAndUnit(data.pricing_data[i])

\* C1: every checklist that generate_checklist returns has overall_status
\* "pass" exactly when every finding in items is ok, and "fail" otherwise.
C1_OverallStatusIffAllOk ==
    Returned(checklist) =>
        /\ checklist.overall_status = "pass" <=> AllOk(checklist)
        /\ checklist.overall_status = "fail" <=> ~AllOk(checklist)

\* a checklist with one failing finding among passing ones was returned
C1_Witness ==
    /\ Returned(checklist)
    /\ checklist.overall_status = "fail"
    /\ Cardinality({i \in 1..Len(Items) : ~Items[i].ok}) = 1

\* the evidence texts and the problem tags of the five predicates, in order
PredicateTexts ==
    <<{"UEI not found in documents", "UEI found: "},
      {"DUNS not found in documents", "DUNS found: "},
      {"SAM.gov registration not active", "SAM.gov status: "},
      {"No past performance records found", "No past performance >= $25,000 found",
       "Past performance >= $25,000 found"},
      {"No pricing data found", "Pricing data missing rate or unit information",
       "Pricing data complete"}>>

PredicateTags ==
    <<{"missing_uei"}, {"missing_duns"}, {"sam_not_active"},
      {"missing_past_performance", "past_performance_min_value_not_met"},
      {"pricing_incomplete"}>>

SameFindings(a, b) ==
    /\ Len(a.items) = Len(b.items)
    /\ \A i \in 1..Len(a.items) :
          /\ a.items[i].ok = b.items[i].ok
          /\ a.items[i].problem = b.items[i].problem
    /\ a.overall_status = b.overall_status

\* C3: two calls of generate_checklist on the same fact set, with whatever
\* citation lists, end the same way, and when they return, return the same
\* number of findings with the same ok and problem values and the same
\* overall_status.
C3_CitationsDoNotChangeFindings ==
    prev_checklist # NoResult =>
        /\ Returned(prev_checklist) <=> Returned(checklist)
        /\ Returned(checklist) => SameFindings(prev_checklist, checklist)

\* two calls returned, one with an empty and one with a non-empty citation
\* list, on a fact set with failing findings
C3_Witness ==
    /\ Returned(prev_checklist) /\ Returned(checklist)
    /\ prev_rules # relevant_rules
    /\ (prev_rules = <<>> \/ relevant_rules = <<>>)
    /\ checklist.overall_status = "fail"

\* C4: in every returned checklist the UEI finding is not ok with tag
\* missing_uei and cites R1 when uei is unset, and is ok when uei is set.
C4_UEIFinding ==
    Returned(checklist) =>
        /\ parsed_data.uei = None =>
              /\ ~Items[1].ok
              /\ Items[1].problem = <<"missing_uei">>
              /\ \E k \in 1..Len(Items[1].rule_ids) : Items[1].rule_ids[k] = "R1"
        /\ parsed_data.uei # None => Items[1].ok

\* a checklist returned for a fact set without a UEI and with a DUNS
C4_Witness ==
    /\ Returned(checklist)
    /\ parsed_data.uei = None
    /\ parsed_data.duns # None
    /\ ~Items[1].ok

C7_NeverRaises ==
    (checklist # NoResult /\ parsed_data.past_performance # <<>>) =>
        /\ checklist # ValueError
        /\ Len(Items) = 5

\* C8: in every returned checklist the pricing finding is ok exactly when the
\* pricing list is non-empty and every entry has a non-empty rate and a
\* non-empty unit; otherwise it is not ok with tag pricing_incomplete and
\* cites R4, wherever the incomplete entry stands in the list.
C8_PricingFinding ==
    Returned(checklist) =>
        /\ Items[5].ok <=> PricingComplete(parsed_data)
        /\ ~Items[5].ok =>
              /\ Items[5].problem = <<"pricing_incomplete">>
              /\ Items[5].rule_ids = <<"R4">>

\* a checklist returned for a list whose incomplete entry follows a complete one
C8_Witness ==
    /\ Returned(checklist)
    /\ Len(parsed_data.pricing_data) >= 2
    /\ HasRateAndUnit(parsed_data.pricing_data[1])
    /\ ~HasRateAndUnit(parsed_data.pricing_data[Len(parsed_data.pricing_data)])
    /\ Items[5].problem = <<"pricing_incomplete">>

\* C9: every finding of a returned checklist, ok or not, carries a non-empty
\* rule_ids list: R1 for the UEI, DUNS and SAM findings, R3 for the past
\* performance finding and R4 for the pricing finding.
C9_RuleIds ==
    Returned(checklist) =>
        /\ \A i \in 1..Len(Items) : Items[i].rule_ids # <<>>
        /\ \A i \in {1, 2, 3} : Items[i].rule_ids = <<"R1">>
        /\ Items[4].rule_ids = <<"R3">>
        /\ Items[5].rule_ids = <<"R4">>

\* a returned checklist in which every finding is ok
C9_Witness ==
    /\ Returned(checklist)
    /\ Len(Items) = 5
    /\ AllOk(checklist)

\* C10: a fact set with a UEI, a DUNS, a SAM status that is set, at least one
\* past-performance entry at or above 25000 and a complete pricing list
\* yields overall_status "pass" with every finding ok and without problem.
C10_CompleteSubmissionPasses ==
    ( /\ Returned(checklist)
      /\ parsed_data.uei # None
      /\ parsed_data.duns # None
      /\ parsed_data.sam_status # None
      /\ SomeEntryMeetsMinimum(parsed_data)
      /\ PricingComplete(parsed_data) ) =>
        /\ checklist.overall_status = "pass"
        /\ \A i \in 1..Len(Items) : Items[i].ok /\ Items[i].problem = None

(***************************************************************************)
(* Properties of the rule retriever.                                       *)
(***************************************************************************)
\* the outcome r of get_relevant_rules is a returned list of citations
ReturnedList(r) == "relevant_rules" \in DOMAIN r

\* the rule ids cited by an outcome, none when the call raised
CitedIds(r) ==
    IF ReturnedList(r)
    THEN {r.relevant_rules[k].rule_id : k \in 1..Len(r.relevant_rules)}
    ELSE {}

\* the vocabulary behind the columns of the index and of the last query
IndexVocabulary == Vocabulary([i \in 1..Len(rule_texts) |-> Analyze(rule_texts[i])])

QueryVocabulary == Vocabulary(<<Analyze(QueryText(query_data))>>)

\* what line 85 computes for the last call: ValueError or the similarities
LastSimilarities ==
    LET q == QueryEmbeddings[QueryText(query_data)] IN
    IF q = ValueError THEN ValueError
    ELSE cosine_similarity(q.array, embeddings.array)

\* C11: whenever get_relevant_rules has been called, the query vector has as
\* many columns as the rule embeddings, every column stands for the same
\* term in both, and a cosine similarity was computed for every rule.
C11_QueryVectorInIndexSpace ==
    retrieval # NoResult =>
        /\ QueryEmbeddings[QueryText(query_data)] # ValueError
        /\ Len(QueryEmbeddings[QueryText(query_data)].array[1]) = Len(embeddings.array[1])
        /\ QueryVocabulary = IndexVocabulary
        /\ LastSimilarities # ValueError
        /\ Len(LastSimilarities.similarities) = Len(rule_ids)

\* C12: a call of get_relevant_rules on a fact set in which uei, naics_codes,
\* past_performance and pricing_data are all unset or empty returns the empty
\* list.
C12_NoPhraseReturnsEmptyList ==
    (retrieval # NoResult /\ QueryParts(query_data) = <<>>) =>
        retrieval = [relevant_rules |-> <<>>]

\* C13: every call of get_relevant_rules returns a list that cites a rule
\* once when its similarity to the query is above 0.3 and not at all
\* otherwise, and every relevance_score in the list is above 0.3.
C13_CitedIffAboveThreshold ==
    retrieval # NoResult =>
        /\ ReturnedList(retrieval)
        /\ LastSimilarities # ValueError
        /\ \A i \in 1..Len(rule_ids) :
              Cardinality({k \in 1..Len(retrieval.relevant_rules) :
                             retrieval.relevant_rules[k].rule_id = rule_ids[i]})
                = IF AboveThreshold(LastSimilarities.similarities[i]) THEN 1 ELSE 0
        /\ \A k \in 1..Len(retrieval.relevant_rules) :
              AboveThreshold(retrieval.relevant_rules[k].relevance_score)

\* the position of a rule id in the corpus
CorpusPosition(id) == CHOOSE i \in 1..Len(RuleIds) : RuleIds[i] = id

\* C14: every call of get_relevant_rules returns its citations in
\* non-increasing order of relevance_score, two citations of equal score
\* standing in the order in which their rules were inserted into the corpus.
C14_SortedByScore ==
    retrieval # NoResult =>
        /\ ReturnedList(retrieval)
        /\ \A k, l \in 1..Len(retrieval.relevant_rules) :
              k < l =>
                LET a == retrieval.relevant_rules[k]
                    b == retrieval.relevant_rules[l]
                IN  /\ ~Greater(b.relevance_score, a.relevance_score)
                    /\ ~Greater(a.relevance_score, b.relevance_score)
                          => CorpusPosition(a.rule_id) < CorpusPosition(b.rule_id)

\* C15: when rules were removed and the index rebuilt between two calls of
\* get_relevant_rules on the same fact set, the later call cites no removed
\* rule and cites exactly the rules the earlier call cited less the removed
\* ones.
C15_RemovalOnlyRemoves ==
    ( /\ retrieval # NoResult
      /\ noted_retrieval # NoResult
      /\ noted_query = query_data
      /\ removed # {} ) =>
        /\ CitedIds(retrieval) \cap removed = {}
        /\ CitedIds(retrieval) = CitedIds(noted_retrieval) \ removed

\* C16: when every rule has been removed, rebuilding the index raises
\* nothing and every call of get_relevant_rules returns the empty list.
C16_EmptyCorpusNeverRaises ==
    self_rules = <<>> =>
        /\ build_outcome = NoResult
        /\ retrieval # NoResult => retrieval = [relevant_rules |-> <<>>]

Processed == parsed_data # NoResult

Evaluated == checklist # NoResult

\* C18: for an empty document list process_documents returns a fact set in
\* which uei, duns, sam_status and primary_contact are unset and every list
\* is empty, and the checklist generate_checklist returns for that fact set
\* has five findings, every one with ok = false, and overall_status "fail".
C18_EmptySubmissionFailsEveryFinding ==
    documents = <<>> =>
        /\ Processed =>
              /\ parsed_data.uei = None
              /\ parsed_data.duns = None
              /\ parsed_data.sam_status = None
              /\ parsed_data.primary_contact = None
              /\ parsed_data.naics_codes = <<>>
              /\ parsed_data.past_performance = <<>>
              /\ parsed_data.pricing_data = <<>>
              /\ parsed_data.document_types = <<>>
        /\ Evaluated =>
              /\ checklist # ValueError
              /\ Len(checklist.items) = 5
              /\ \A i \in 1..5 : checklist.items[i].ok = FALSE
              /\ checklist.overall_status = "fail"

\* the empty submission has been processed and its fact set evaluated
C18_Witness ==
    /\ documents = <<>>
    /\ Processed
    /\ Evaluated
    /\ relevant_rules # <<>>

\* a hint is given when type_hint is neither None nor the empty str
HintGiven(document) == document.type_hint # None /\ document.type_hint # <<>>

\* a keyword of the marker set occurs in the lower-cased text
MarkerOccurs(document, keywords) ==
    \E keyword \in keywords :
        \E i \in 1..(Len(document.text) - Len(keyword) + 1) :
            \A k \in 1..Len(keyword) : Lower(document.text)[i + k - 1] = keyword[k]

\* C19: the class of a document is its type_hint verbatim whenever a hint is
\* given (a type_hint that is None or empty is no hint), whatever its text
\* holds; with no hint it is the first class in the order profile,
\* past_performance, pricing whose marker set has a keyword occurring in the
\* lower-cased text, and "unknown" when no marker occurs.
C19_HintWinsThenMarkerPriority ==
    Processed =>
        /\ Len(parsed_data.document_types) = Len(documents)
        /\ \A i \in 1..Len(documents) :
              LET document == documents[i]
                  doc_type == parsed_data.document_types[i]
                  isProfile == MarkerOccurs(document, ProfileKeywords)
                  isPastPerformance == MarkerOccurs(document, PastPerformanceKeywords)
                  isPricing == MarkerOccurs(document, PricingKeywords)
              IN  /\ HintGiven(document) => doc_type = document.type_hint
                  /\ ~HintGiven(document) =>
                        /\ isProfile => doc_type = ProfileClass
                        /\ ~isProfile /\ isPastPerformance => doc_type = PastPerformanceClass
                        /\ ~isProfile /\ ~isPastPerformance /\ isPricing
                              => doc_type = PricingClass
                        /\ ~isProfile /\ ~isPastPerformance /\ ~isPricing
                              => doc_type = UnknownClass

\* a pricing text hinted as a profile is classified profile, and an unhinted
\* text with markers of past performance and of pricing past_performance
C19_Witness ==
    /\ Processed
    /\ documents = <<[text |-> PricingText, type_hint |-> ProfileClass],
                     [text |-> MixedText, type_hint |-> None]>>
    /\ parsed_data.document_types = <<ProfileClass, PastPerformanceClass>>

\* the sequence s without its element at i
WithoutElement(s, i) == SubSeq(s, 1, i - 1) \o SubSeq(s, i + 1, Len(s))

\* C20: a document classified "unknown" changes no field of the fact set
\* other than appending its class to document_types, and the documents that
\* follow it are classified and extracted as if it were absent: the fact set
\* of the submission is the fact set of the submission without that document,
\* but for the "unknown" entry of document_types.
C20_UnknownDocumentContributesNothing ==
    Processed =>
        \A i \in 1..Len(documents) :
            parsed_data.document_types[i] = UnknownClass =>
                LET absent == process_documents(WithoutElement(documents, i)) IN
                /\ parsed_data.uei = absent.uei
                /\ parsed_data.duns = absent.duns
                /\ parsed_data.naics_codes = absent.naics_codes
                /\ parsed_data.sam_status = absent.sam_status
                /\ parsed_data.primary_contact = absent.primary_contact
                /\ parsed_data.past_performance = absent.past_performance
                /\ parsed_data.pricing_data = absent.pricing_data
                /\ WithoutElement(parsed_data.document_types, i) = absent.document_types

\* an unknown document is followed by a profile whose fields were extracted
C20_Witness ==
    /\ Processed
    /\ Len(documents) = 2
    /\ parsed_data.document_types = <<UnknownClass, ProfileClass>>
    /\ parsed_data.uei # None
    /\ parsed_data.duns # None

\* the profile documents of the submission, by position
ProfilePositions ==
    {i \in 1..Len(documents) : parsed_data.document_types[i] = ProfileClass}

\* the profile documents that yield both an email and a phone
ContactPositions ==
    {i \in ProfilePositions :
        /\ FirstMatch(documents[i].text, "email") # NoGroup
        /\ FirstMatch(documents[i].text, "phone") # NoGroup}

\* the first email and the first phone of the document at i
ContactOf(i) ==
    <<FirstMatch(documents[i].text, "email"), FirstMatch(documents[i].text, "phone")>>

\* C21: primary_contact is fixed by the first document in input order that
\* yields both an email and a phone, with that document's first email and
\* first phone; a later document with contact details never replaces it.
C21_FirstContactWins ==
    Processed =>
        parsed_data.primary_contact =
            IF ContactPositions = {} THEN None ELSE ContactOf(Least(ContactPositions))

\* C22: after process_documents on n documents document_types has exactly n
\* entries and its i-th entry is the class of the i-th document, also for
\* documents classified unknown and documents from which nothing was
\* extracted.
C22_OneTypePerDocumentInOrder ==
    Processed =>
        /\ Len(parsed_data.document_types) = Len(documents)
        /\ \A i \in 1..Len(documents) :
              parsed_data.document_types[i] =
                  classify_document(documents[i].text, documents[i].type_hint)

\* an unknown document from which nothing is extracted stands before a
\* pricing document
C22_Witness ==
    /\ Processed
    /\ documents = <<[text |-> UnmarkedText, type_hint |-> None],
                     [text |-> PricingText, type_hint |-> None]>>
    /\ parsed_data.document_types = <<UnknownClass, PricingClass>>
    /\ parsed_data.pricing_data # <<>>

\* the document has no hint and a profile marker occurs in its text
UnhintedProfile(document) ==
    ~HintGiven(document) /\ MarkerOccurs(document, ProfileKeywords)

\* the document has a Customer: block with a value, and a pricing row
HasBlocksAndRows(document) ==
    /\ extract_past_performance_fields(document.text, UnsetFacts).past_performance # <<>>
    /\ extract_pricing_fields(document.text, UnsetFacts).pricing_data # <<>>

\* C29: a document without type_hint whose text holds a profile marker adds
\* no past_performance entry and no pricing entry, also when it holds
\* Customer:/Value: blocks and pricing rows: a submission whose documents
\* are all of that kind, and so the single combined document, ends with
\* past_performance and pricing_data empty.
C29_ProfileMarkerShadowsOtherClasses ==
    (Processed /\ \A i \in 1..Len(documents) : UnhintedProfile(documents[i])) =>
        /\ parsed_data.past_performance = <<>>
        /\ parsed_data.pricing_data = <<>>
        /\ \A i \in 1..Len(documents) : parsed_data.document_types[i] = ProfileClass

\* the submission is the one combined document, whose profile fields were
\* extracted
C29_Witness ==
    /\ Processed
    /\ documents = <<[text |-> CombinedText, type_hint |-> None]>>
    /\ HasBlocksAndRows(documents[1])
    /\ parsed_data.uei # None

\* the match of a profile field's pattern in the document at i
FieldMatch(field, i) ==
    CASE field = "uei" -> PatternSearch(documents[i].text, <<"u","e","i",":">>, "[A-Z0-9]", 12)
      [] field = "duns" -> PatternSearch(documents[i].text, <<"d","u","n","s",":">>, "\\d", 9)
      [] field = "sam_status" ->
            PatternSearch(documents[i].text, <<"s","a","m",".","g","o","v",":">>,
                          "[a-zA-Z\\s]", 0)
      [] field = "naics_codes" ->
            PatternSearch(documents[i].text, <<"n","a","i","c","s",":">>, "[0-9,\\s]", 0)

\* the profile documents in which the field's label matches
MatchPositions(field) == {i \in ProfilePositions : FieldMatch(field, i) # NoGroup}

\* the value of the last profile document in which the label matches
LastValue(field) ==
    IF MatchPositions(field) = {} THEN None
    ELSE FieldMatch(field, Greatest(MatchPositions(field)))

\* the codes of the documents from i on, in input order
RECURSIVE CodesFrom(_)
CodesFrom(i) ==
    IF i > Len(documents) THEN <<>>
    ELSE (IF i \in MatchPositions("naics_codes")
          THEN StrippedParts(FieldMatch("naics_codes", i))
          ELSE <<>>) \o CodesFrom(i + 1)

\* C30: across several profile documents uei, duns and sam_status hold the
\* value of the last document in input order whose text matches the field's
\* label, a document without a match leaving the earlier value; naics_codes
\* is the concatenation of every document's codes in input order, duplicates
\* kept.
C30_LastProfileValueWins ==
    Processed =>
        /\ parsed_data.uei = LastValue("uei")
        /\ parsed_data.duns = LastValue("duns")
        /\ parsed_data.sam_status =
              IF MatchPositions("sam_status") = {} THEN None
              ELSE Strip(LastValue("sam_status"))
        /\ parsed_data.naics_codes = CodesFrom(1)

\* the second profile replaces uei and sam_status, has no DUNS label and
\* leaves duns
C30_Witness ==
    /\ Processed
    /\ documents = <<[text |-> ProfileText, type_hint |-> None],
                     [text |-> CombinedText, type_hint |-> None]>>
    /\ parsed_data.uei = <<"X","Y","Z","7","8","9","G","H","I","0","1","2">>
    /\ parsed_data.duns = <<"1","2","3","4","5","6","7","8","9">>
    /\ parsed_data.sam_status = <<"I","n","a","c","t","i","v","e">>
    /\ parsed_data.naics_codes = <<NAICSCode, <<"5","4","1","5","1","2">>>>

(***************************************************************************)
(* Properties of the PII redactor.                                         *)
(***************************************************************************)
\* C23: redact is idempotent: redacting a text that has been redacted
\* leaves it as it is, redact(redact(x)) = redact(x).
C23_RedactIdempotent == redacted_twice # None => redacted_twice = redacted_once

\* the spans <<first, last>> of s that one of the five phone patterns matches
PhoneSpans(s) ==
    {span \in (1..Len(s)) \X (1..Len(s)) :
        \E k \in 1..Len(phone_patterns) :
            PatternBehind(phone_patterns[k], s, span[1]) = span[2] + 1}

\* the spans of s that the email pattern matches
EmailSpans(s) == {span \in (1..Len(s)) \X (1..Len(s)) : EmailEnd(s, span[1]) = span[2]}

Overlap(a, b) == a[1] <= b[2] /\ b[1] <= a[2]

Inside(a, b) == b[1] <= a[1] /\ a[2] <= b[2] /\ a # b

\* the span stands between white space or the ends of s
Delimited(s, span) ==
    /\ span[1] = 1 \/ IsSpace(s[span[1] - 1])
    /\ span[2] = Len(s) \/ IsSpace(s[span[2] + 1])

\* the phone numbers of s: the delimited phone-shaped spans that lie in no
\* longer phone-shaped span and share no character with an email
PhoneNumbers(s) ==
    {span \in PhoneSpans(s) :
        /\ Delimited(s, span)
        /\ \A other \in PhoneSpans(s) : ~Inside(span, other)
        /\ \A email \in EmailSpans(s) : ~Overlap(span, email)}

\* C24: every phone number of a text, in each of the five layouts, is
\* replaced whole by the phone token: the redacted text is the redaction of
\* what stands before the number, the token, and the redaction of what
\* stands behind it, so that no '+', '+1', '(' or digit of it is left.
C24_PhoneNumbersReplacedWhole ==
    redacted_once # None =>
        \A span \in PhoneNumbers(input_text) :
            redacted_once = redact(SubSeq(input_text, 1, span[1] - 1)) \o PhoneToken
                              \o redact(SubSeq(input_text, span[2] + 1, Len(input_text)))

(***************************************************************************)
(* Properties of the API.                                                  *)
(***************************************************************************)
\* the last response answers an analyze request
AnalyzeAnswered == "endpoint" \in DOMAIN response /\ response.endpoint = "analyze"

\* the request whose ingest completed last
LastIngested == ingested[Len(ingested)]

\* C25: an analyze request whose request_id is not a key of the document
\* store is answered with status 400 and analyzes nothing: it reads the
\* documents of no key of the store.
C25_UnknownRequestIdRejected ==
    (AnalyzeAnswered /\ response.given # None /\ response.given \notin DOMAIN document_store)
        => (response.status_code = 400 /\ response.read = None)

\* C26: an analyze request made while the document store is empty is
\* answered with status 400 and the detail 'No documents found to analyze',
\* and stores no analysis result.
C26_EmptyStoreRejected ==
    (AnalyzeAnswered /\ DOMAIN document_store = {})
        => /\ response.status_code = 400
           /\ response.detail = "No documents found to analyze"
           /\ analysis_store = EmptyDict

\* C27: an analyze request with no request_id analyzes the documents of the
\* request whose ingest completed last, and a response it returns carries
\* that request's id.
C27_AnalyzesLastIngested ==
    (/\ AnalyzeAnswered
     /\ response.given = None
     /\ ingested # <<>>
     /\ LastIngested \in DOMAIN document_store)
        => /\ response.read = LastIngested
           /\ response.status_code = 200 => response.body.request_id = LastIngested

\* the analysis of the documents stored under a key, computed on its own
AnalysisAlone(key) ==
    ResultOf(key, process_documents(document_store[key]), TRUE,
             RuleIds, RuleTexts(RuleIds), RuleEmbeddings[RuleIds])

\* C28: in every interleaving of ingest and analyze requests, an analyze
\* request for a stored request id returns the facts, the citations and the
\* checklist computed from the documents ingested under that id, and leaves
\* the rule index and the stored documents as they are.
C28_AnalysisSharesNoState ==
    [][(/\ response' # response
        /\ "endpoint" \in DOMAIN response'
        /\ response'.endpoint = "analyze"
        /\ response'.given \in DOMAIN document_store)
        => /\ UNCHANGED <<self_rules, rule_texts, rule_ids, embeddings, document_store>>
           /\ response'.status_code = 200
           /\ response'.body = AnalysisAlone(response'.given).result]_vars

====
